---- MODULE Spec2Model ----
(***************************************************************************)
(* Model of the daily-schedule subsystem of weatherMan:                    *)
(*   src/src/scheduler.py      select_daily_cities, calculate_posting_times*)
(*   src/src/state_manager.py  DailySchedule, StateManager                 *)
(*   src/src/config.py         Config.get_enabled_cities                   *)
(*                                                                         *)
(* Time is counted in whole minutes since 00:00 UTC of day 0.  A city is   *)
(* identified by its position in the configuration (cities.yaml keys are   *)
(* unique, so the position stands for the id).                             *)
(***************************************************************************)
EXTENDS Integers, Sequences, FiniteSets, TLC

VARIABLES
    config,   \* Config.cities: sequence of [id, enabled, weight], fixed for a run
    now,      \* the UTC clock, minutes since day 0 00:00
    file,     \* content of state/daily_schedule.json
    pc,       \* per process: position in the invocation
    sched,    \* per process: the DailySchedule object it holds (or NoSchedule)
    work,     \* per process: locals of get_or_create_schedule
    ret,      \* per process: outcome of the last get_or_create_schedule call
    marked,   \* per process: the city ids mark_posted was called with on sched
    hist,     \* the schedule the latest call returned, while the file is as it left it
    answer,   \* per process: result of the last needs_posting call
    sel,      \* locals of a stand-alone select_daily_cities call
    cpt,      \* locals of a stand-alone calculate_posting_times call
    pcall,    \* locals and collaborator calls of a process_city call
    spn,      \* locals of a stand-alone should_post_now call
    mn,       \* locals of main: the cities to process, the results, the exit code
    gwr,      \* locals of a generate_with_retry call and what it has called
    imc,      \* locals of a create_media_container call and what it has called
    recency,  \* the recency tracker's records: sequence of [city_id, posted_at]
    rcall,    \* the recency tracker's latest call: operation, arguments, result
    ever      \* the cities the file has held as posted since a schedule was last generated

vars == <<config, now, file, pc, sched, work, ret, marked, hist, answer, sel, cpt,
          pcall, spn, mn, gwr, imc, recency, rcall, ever>>

-----------------------------------------------------------------------------
(* Bounds of the model *)

MaxN == 48            \* calculate_posting_times: longest city list tried
MaxPool == 3          \* select_daily_cities alone: cities in the configuration
MaxDays == 2          \* the clock runs over days 0 .. MaxDays-1
ClockStep == 720      \* minutes by which the clock advances in one tick
RandomResolution == 2 \* random() takes the values j/RandomResolution
MaxPosted == 1        \* posted entries of a schedule (one more city may be marked)
MaxRecords == 2       \* records the recency tracker holds
MaxTimes == 2         \* should_post_now alone: posting times of the city
MaxCities == 2        \* main: cities to process
MaxAttempts == 3      \* generate_with_retry: largest max_attempts tried
MaxRetries == 3       \* create_media_container: largest max_retries tried
MaxEntries == 2       \* mark_posted alone: entries of the schedule object
CHUNK == 12          \* bits handled per step of the long arithmetic on floats

(* Program constants *)

NUM_CITIES == 6            \* get_or_create_schedule: num_cities=6
DEFAULT_TOLERANCE == 30    \* needs_posting: tolerance_minutes = 30
MANT_BITS == 53            \* significand width of a Python float (IEEE double)
MinutesPerHour == 60           \* (hours_offset - hours) * 60
HoursPerDay == 24              \* 24.0 / num_cities
MinutesPerDay == HoursPerDay * MinutesPerHour

-----------------------------------------------------------------------------
(* Python float arithmetic, as far as calculate_posting_times uses it.     *)
(* A non-negative float is [m |-> bits, e |-> exponent]: bits is the       *)
(* significand, most significant bit first, without leading zeros and with *)
(* at most MANT_BITS significant bits; its value is bits * 2^e.  Zero has   *)
(* the empty significand.                                                  *)

RECURSIVE Pow2(_)
Pow2(n) == IF n = 0 THEN 1 ELSE 2 * Pow2(n - 1)

\* the w-bit representation of n
FixedBits(n, w) == [j \in 1..w |-> (n \div Pow2(w - j)) % 2]

RECURSIVE ToNat(_)
ToNat(bits) ==
    IF bits = <<>> THEN 0
    ELSE 2 * ToNat(SubSeq(bits, 1, Len(bits) - 1)) + bits[Len(bits)]

AnyOne(bits) == \E i \in 1..Len(bits) : bits[i] = 1

StripZeros(bits) ==
    IF ~AnyOne(bits) THEN <<>>
    ELSE LET first == CHOOSE i \in 1..Len(bits) :
                          bits[i] = 1 /\ \A j \in 1..(i - 1) : bits[j] = 0
         IN  SubSeq(bits, first, Len(bits))

\* bits + 1 (a carry out of the top lengthens the sequence by one)
Increment(bits) ==
    IF \A i \in 1..Len(bits) : bits[i] = 1
    THEN <<1>> \o [i \in 1..Len(bits) |-> 0]
    ELSE LET last == CHOOSE i \in 1..Len(bits) :
                         bits[i] = 0 /\ \A j \in (i + 1)..Len(bits) : bits[j] = 1
         IN  [i \in 1..Len(bits) |->
                 IF i < last THEN bits[i] ELSE IF i = last THEN 1 ELSE 0]

\* Round bits * 2^e (+ something below the last bit when sticky) to MANT_BITS
\* significant bits, to nearest, ties to even.
RoundFloat(bits, e, sticky) ==
    IF Len(bits) <= MANT_BITS THEN [m |-> bits, e |-> e]
    ELSE LET keep  == SubSeq(bits, 1, MANT_BITS)
             rest  == SubSeq(bits, MANT_BITS + 1, Len(bits))
             guard == rest[1]
             below == sticky \/ AnyOne(Tail(rest))
             up    == guard = 1 /\ (below \/ keep[MANT_BITS] = 1)
         IN  [m |-> IF up THEN Increment(keep) ELSE keep, e |-> e + Len(rest)]

\* Long division num/den, CHUNK quotient bits at a time, until more than
\* MANT_BITS significant bits are known or the division is exact.
RECURSIVE DivGen(_, _, _, _)
DivGen(bits, r, den, e) ==
    IF r = 0 \/ Len(bits) > MANT_BITS
    THEN RoundFloat(bits, e, r # 0)
    ELSE LET scaled == r * Pow2(CHUNK)
         IN  DivGen(StripZeros(bits \o FixedBits(scaled \div den, CHUNK)),
                    scaled % den, den, e - CHUNK)

\* float(num) / float(den) for small positive integers
FloatDiv(num, den) ==
    DivGen(StripZeros(FixedBits(num \div den, CHUNK)), num % den, den, 0)

\* bits * k + carry, k a small natural: schoolbook multiplication from the
\* low end, CHUNK bits at a time
RECURSIVE MulBits(_, _, _)
MulBits(bits, k, carry) ==
    IF Len(bits) <= CHUNK
    THEN FixedBits(ToNat(bits) * k + carry, 2 * CHUNK)
    ELSE LET cut == Len(bits) - CHUNK
             v   == ToNat(SubSeq(bits, cut + 1, Len(bits))) * k + carry
         IN  MulBits(SubSeq(bits, 1, cut), k, v \div Pow2(CHUNK))
                 \o FixedBits(v % Pow2(CHUNK), CHUNK)

\* float(k) * f, rounded
FloatMulInt(k, f) ==
    IF k = 0 \/ f.m = <<>> THEN [m |-> <<>>, e |-> 0]
    ELSE RoundFloat(StripZeros(MulBits(f.m, k, 0)), f.e, FALSE)

\* int(f): truncation toward zero
FloatInt(f) ==
    IF f.m = <<>> THEN 0
    ELSE IF f.e >= 0 THEN ToNat(f.m) * Pow2(f.e)
    ELSE IF Len(f.m) + f.e <= 0 THEN 0
    ELSE ToNat(SubSeq(f.m, 1, Len(f.m) + f.e))

\* f - int(f): exact, the bits below the binary point
FloatFrac(f) ==
    IF f.m = <<>> \/ f.e >= 0 THEN [m |-> <<>>, e |-> 0]
    ELSE IF Len(f.m) + f.e <= 0 THEN f
    ELSE [m |-> StripZeros(SubSeq(f.m, Len(f.m) + f.e + 1, Len(f.m))), e |-> f.e]

-----------------------------------------------------------------------------
(* calculate_posting_times *)

\* interval_hours = 24.0 / num_cities
IntervalHours(n) == FloatDiv(HoursPerDay, n)

\* (variant: offsets counted from the first interval instead of from zero)
OffsetMinutesFromOne(i, n) ==
    LET hours_offset == FloatMulInt(i + 1, FloatDiv(HoursPerDay, n))
        hours        == FloatInt(hours_offset)
        minutes      == FloatInt(FloatMulInt(MinutesPerHour, FloatFrac(hours_offset)))
    IN  hours * MinutesPerHour + minutes

\* Minutes after midnight of the i-th city (0-indexed) of n:
\*   hours_offset = i * interval_hours; hours = int(hours_offset)
\*   minutes = int((hours_offset - hours) * 60)
OffsetMinutes(i, n) ==
    LET hours_offset == FloatMulInt(i, IntervalHours(n))
        hours        == FloatInt(hours_offset)
        minutes      == FloatInt(FloatMulInt(MinutesPerHour, FloatFrac(hours_offset)))
    IN  hours * MinutesPerHour + minutes

-----------------------------------------------------------------------------
(* Config.get_enabled_cities *)

EnabledCities(cfg) == SelectSeq(cfg, LAMBDA c : c.enabled)

Ids(cities) == {cities[i].id : i \in 1..Len(cities)}

-----------------------------------------------------------------------------
(* select_daily_cities *)

RECURSIVE SumTo(_, _)
SumTo(ws, i) == IF i = 0 THEN 0 ELSE SumTo(ws, i - 1) + ws[i]

\* itertools.accumulate(weights)
CumWeights(ws) == [i \in 1..Len(ws) |-> SumTo(ws, i)]

\* bisect.bisect(a, x, lo, hi), indices counted from 0 as in Python
RECURSIVE Bisect(_, _, _, _)
Bisect(a, x, lo, hi) ==
    IF lo >= hi THEN lo
    ELSE LET mid == (lo + hi) \div 2
         IN  IF x < a[mid + 1] THEN Bisect(a, x, lo, mid)
             ELSE Bisect(a, x, mid + 1, hi)

\* floor(random() * total) for random() in {j/res : j in 0..res-1}; the
\* cumulative weights are integers, so bisect sees no more of the product
RandomPoints(total, res) == {(j * total) \div res : j \in 0..(res - 1)}

\* random.choices(population, weights=ws, k=1): the positions (from 1) it can
\* return; it raises ValueError when the total weight is not positive
ChoicesRaises(ws) == SumTo(ws, Len(ws)) <= 0

\* (variant: random.choice, every position equally likely)
ChoicesUnweighted(ws, res) == 1..Len(ws)

Choices(ws, res) ==
    LET total == SumTo(ws, Len(ws))
    IN  {Bisect(CumWeights(ws), x, 0, Len(ws) - 1) + 1 : x \in RandomPoints(total, res)}

\* remaining_cities.index(chosen)
IndexOf(cities, chosen) ==
    CHOOSE i \in 1..Len(cities) :
        cities[i] = chosen /\ \A j \in 1..(i - 1) : cities[j] # chosen

\* list.pop(idx)
Pop(s, idx) == SubSeq(s, 1, idx - 1) \o SubSeq(s, idx + 1, Len(s))

\* (variant: the chosen city stays in the pool)
DrawStepKeep(st, drawn) ==
    [st EXCEPT !.selected = Append(st.selected, st.remaining[drawn]),
               !.draws    = st.draws + 1]

\* One pass of the loop body for the drawn position: append the chosen city,
\* remove it and its weight from the pool.
DrawStep(st, drawn) ==
    LET chosen == st.remaining[drawn]
        idx    == IndexOf(st.remaining, chosen)
    IN  [st EXCEPT !.selected  = Append(st.selected, chosen),
                   !.remaining = Pop(st.remaining, idx),
                   !.weights   = Pop(st.weights, idx),
                   !.draws     = st.draws + 1]

\* (variant: no length check)
SelectStartUnchecked(cfg, k) ==
    LET enabled == EnabledCities(cfg)
    IN  [phase |-> "loop", error |-> "none",
         k |-> k, remaining |-> enabled,
         weights |-> [i \in 1..Len(enabled) |-> enabled[i].weight],
         selected |-> <<>>, draws |-> 0]

\* The locals of a call after the length check
SelectStart(cfg, k) ==
    LET enabled == EnabledCities(cfg)
    IN  IF Len(enabled) < k
        THEN [phase |-> "raised", error |-> "ValueError: cannot select",
              k |-> k, remaining |-> <<>>, weights |-> <<>>,
              selected |-> <<>>, draws |-> 0]
        ELSE [phase |-> "loop", error |-> "none",
              k |-> k, remaining |-> enabled,
              weights |-> [i \in 1..Len(enabled) |-> enabled[i].weight],
              selected |-> <<>>, draws |-> 0]

\* The states one loop iteration can lead to
SelectIterate(st, res) ==
    IF st.draws = st.k THEN {[st EXCEPT !.phase = "returned"]}
    ELSE IF ChoicesRaises(st.weights)
    THEN {[st EXCEPT !.phase = "raised", !.error = "ValueError: total of weights"]}
    ELSE {DrawStep(st, d) : d \in Choices(st.weights, res)}

\* All outcomes of the remaining iterations
RECURSIVE SelectRun(_, _)
SelectRun(st, res) ==
    IF st.phase # "loop" THEN {st}
    ELSE UNION {SelectRun(n, res) : n \in SelectIterate(st, res)}

\* select_daily_cities(config, num_cities=k): the final locals it can end with
SelectDailyCities(cfg, k, res) == SelectRun(SelectStart(cfg, k), res)

-----------------------------------------------------------------------------
(* A stand-alone call of select_daily_cities, one loop iteration per step *)

WeightValues == {-1, 0, 1, 2}

PoolConfigs ==
    UNION {[1..n -> [id : {0}, enabled : BOOLEAN, weight : WeightValues]] : n \in 0..MaxPool}

\* cities.yaml keys are unique: the i-th city has id i
WithIds(cfg) == [i \in 1..Len(cfg) |-> [cfg[i] EXCEPT !.id = i]]

NoCall == [phase |-> "none"]

\* a recency tracker holding no record
NoRecords == <<>>

SelCall(k) ==
    /\ sel.phase = "none"
    /\ sel' = SelectStart(config, k)
    /\ UNCHANGED <<config, now, file, pc, sched, work, ret, marked, hist, answer, cpt, pcall, spn, gwr, mn, imc, recency, rcall, ever>>

\* random.random() has 53 bits; any point of [0, total) can come up
SelIterate ==
    /\ sel.phase = "loop"
    /\ sel' \in SelectIterate(sel, IF ChoicesRaises(sel.weights) THEN 1
                                   ELSE SumTo(sel.weights, Len(sel.weights)))
    /\ UNCHANGED <<config, now, file, pc, sched, work, ret, marked, hist, answer, cpt, pcall, spn, gwr, mn, imc, recency, rcall, ever>>


-----------------------------------------------------------------------------
(* calculate_posting_times *)

\* now_utc.replace(hour=0, minute=0, second=0, microsecond=0)
Midnight(t) == (t \div MinutesPerDay) * MinutesPerDay

\* The locals of a call after "if not selected_cities: return {}"; the dict
\* posting_schedule is a function on the ids entered so far
CptStart(cities, t) ==
    IF cities = <<>>
    THEN [phase |-> "returned", cities |-> cities, i |-> 0,
          midnight_today |-> 0, posting_schedule |-> <<>>]
    ELSE [phase |-> "loop", cities |-> cities, i |-> 0,
          midnight_today |-> Midnight(t), posting_schedule |-> <<>>]

\* One pass of "for i, city in enumerate(selected_cities)"
CptStep(st) ==
    IF st.i = Len(st.cities) THEN [st EXCEPT !.phase = "returned"]
    ELSE LET id           == st.cities[st.i + 1].id
             posting_time == st.midnight_today + OffsetMinutes(st.i, Len(st.cities))
         IN  [st EXCEPT !.i = st.i + 1,
                        !.posting_schedule =
                            [x \in DOMAIN st.posting_schedule \cup {id} |->
                                IF x = id THEN posting_time
                                ELSE st.posting_schedule[x]]]

RECURSIVE CptRun(_)
CptRun(st) == IF st.phase # "loop" THEN st ELSE CptRun(CptStep(st))

\* calculate_posting_times(selected_cities) called at clock t
CalculatePostingTimes(cities, t) == CptRun(CptStart(cities, t)).posting_schedule

-----------------------------------------------------------------------------
(* A stand-alone call of calculate_posting_times, one loop pass per step *)

City(i) == [id |-> i, enabled |-> TRUE, weight |-> 1]

\* n cities in the order 1..n, or in the opposite order
CityLists ==
    UNION {{[i \in 1..n |-> City(i)], [i \in 1..n |-> City(n + 1 - i)]} : n \in 0..MaxN}

CptCall(cities) ==
    /\ cpt.phase = "none"
    /\ cpt' = CptStart(cities, now)
    /\ UNCHANGED <<config, now, file, pc, sched, work, ret, marked, hist, answer, sel, pcall, spn, gwr, mn, imc, recency, rcall, ever>>

CptIterate ==
    /\ cpt.phase = "loop"
    /\ cpt' = CptStep(cpt)
    /\ UNCHANGED <<config, now, file, pc, sched, work, ret, marked, hist, answer, sel, pcall, spn, gwr, mn, imc, recency, rcall, ever>>

-----------------------------------------------------------------------------
(* DailySchedule *)

\* datetime.date().isoformat(): two instants give the same string iff they
\* lie on the same UTC day; the day's number stands for the string
IsoDate(t) == t \div MinutesPerDay

NoSchedule == [date |-> -1, selected_cities |-> <<>>, generation_timestamp |-> -1]

\* (variant: the date compared with the full timestamp)
IsCurrentDayStamp(s, t) == s.date = t

\* (variant: any loaded schedule counts as today's)
IsCurrentDayAlways(s, t) == TRUE

\* DailySchedule.is_current_day at clock t
IsCurrentDay(s, t) == s.date = IsoDate(t)

\* (variant: the window's ends excluded)
NeedsPostingStrict(s, city_id, current_time, tolerance_minutes) ==
    \E i \in 1..Len(s.selected_cities) :
        LET e == s.selected_cities[i]
            d == current_time - e.posting_time_utc
        IN  /\ e.city_id = city_id
            /\ ~e.posted
            /\ (IF d < 0 THEN -d ELSE d) < tolerance_minutes

\* (variant: the times compared by their minute of the day)
NeedsPostingClock(s, city_id, current_time, tolerance_minutes) ==
    \E i \in 1..Len(s.selected_cities) :
        LET e == s.selected_cities[i]
            d == (current_time % MinutesPerDay) - (e.posting_time_utc % MinutesPerDay)
        IN  /\ e.city_id = city_id
            /\ ~e.posted
            /\ (IF d < 0 THEN -d ELSE d) <= tolerance_minutes

\* (variant: the entry's city id not compared)
NeedsPostingAnyEntry(s, city_id, current_time, tolerance_minutes) ==
    \E i \in 1..Len(s.selected_cities) :
        LET e == s.selected_cities[i]
            d == current_time - e.posting_time_utc
        IN  /\ ~e.posted
            /\ (IF d < 0 THEN -d ELSE d) <= tolerance_minutes

\* DailySchedule.needs_posting: the first entry of the city decides
NeedsPosting(s, city_id, current_time, tolerance_minutes) ==
    LET hits == {i \in 1..Len(s.selected_cities) : s.selected_cities[i].city_id = city_id}
    IN  IF hits = {} THEN FALSE
        ELSE LET city_entry == s.selected_cities[CHOOSE i \in hits : \A j \in hits : i <= j]
                 diff       == current_time - city_entry.posting_time_utc
                 time_diff  == IF diff < 0 THEN -diff ELSE diff
             IN  IF city_entry.posted THEN FALSE
                 ELSE time_diff <= tolerance_minutes

\* (variant: returns before the assignment)
MarkPostedNothing(s, city_id) == s

\* (variant: flips the flag instead of setting it)
MarkPostedToggle(s, city_id) ==
    [s EXCEPT !.selected_cities =
        [i \in 1..Len(s.selected_cities) |->
            IF s.selected_cities[i].city_id = city_id
            THEN [s.selected_cities[i] EXCEPT !.posted = ~s.selected_cities[i].posted]
            ELSE s.selected_cities[i]]]

\* (variant: no return after the assignment, every entry of the city is set)
MarkPostedEvery(s, city_id) ==
    [s EXCEPT !.selected_cities =
        [i \in 1..Len(s.selected_cities) |->
            IF s.selected_cities[i].city_id = city_id
            THEN [s.selected_cities[i] EXCEPT !.posted = TRUE]
            ELSE s.selected_cities[i]]]

\* DailySchedule.mark_posted: sets the flag of the first entry of the city
MarkPostedOp(s, city_id) ==
    LET hits == {i \in 1..Len(s.selected_cities) : s.selected_cities[i].city_id = city_id}
    IN  IF hits = {} THEN s
        ELSE LET first == CHOOSE i \in hits : \A j \in hits : i <= j
             IN  [s EXCEPT !.selected_cities[first].posted = TRUE]

\* DailySchedule.to_dict: asdict copies the three fields
ToDict(s) ==
    [date |-> s.date, selected_cities |-> s.selected_cities,
     generation_timestamp |-> s.generation_timestamp]

-----------------------------------------------------------------------------
(* StateManager *)

FileKinds ==
    {"missing", "unreadable", "notutf8", "badjson", "lackkey", "othershape", "valid"}

FileOf(kind) == [kind |-> kind, data |-> NoSchedule]

\* StateManager.load_schedule
\*   missing     os.path.exists is false                       -> None
\*   unreadable  open raises an OSError (IOError)              -> None
\*   notutf8     json.load raises UnicodeDecodeError, which is not caught
\*   badjson     json.load raises JSONDecodeError              -> None
\*   lackkey     a dict without one of the keys: KeyError      -> None
\*   othershape  a list, string, number or null: data["date"]
\*               raises TypeError, which is not caught
\*   valid       a dict with the three keys
LoadSchedule(f) ==
    CASE f.kind = "valid"      -> [raised |-> "none", found |-> TRUE, schedule |-> f.data]
      [] f.kind = "othershape" -> [raised |-> "TypeError", found |-> FALSE, schedule |-> NoSchedule]
      [] f.kind = "notutf8"    -> [raised |-> "UnicodeDecodeError", found |-> FALSE, schedule |-> NoSchedule]
      [] OTHER                 -> [raised |-> "none", found |-> FALSE, schedule |-> NoSchedule]

\* What a write of schedule s can leave in the file: the dump, the file as it
\* was (open fails) or a truncated dump (the write fails after open)
WriteOutcomes == {"ok", "open fails", "dump fails"}

\* (variant: the handler of save_schedule prints and does not re-raise)
SaveRaisesNever(outcome) == FALSE

\* save_schedule re-raises the IOError of a failed write
SaveRaises(outcome) == outcome # "ok"

\* the cities a file content holds as posted
PostedIn(f) ==
    IF f.kind # "valid" THEN {}
    ELSE {f.data.selected_cities[i].city_id :
             i \in {j \in 1..Len(f.data.selected_cities) : f.data.selected_cities[j].posted}}

\* (variant: a save keeps the posted flags the file already holds)
FileAfterWriteMerged(f, s, outcome) ==
    CASE outcome = "ok" ->
             [kind |-> "valid",
              data |-> [s EXCEPT !.selected_cities =
                           [i \in 1..Len(s.selected_cities) |->
                               [s.selected_cities[i] EXCEPT !.posted =
                                   @ \/ s.selected_cities[i].city_id \in PostedIn(f)]]]]
      [] outcome = "open fails" -> f
      [] OTHER                  -> FileOf("badjson")

FileAfterWrite(f, s, outcome) ==
    CASE outcome = "ok"         -> [kind |-> "valid", data |-> ToDict(s)]
      [] outcome = "open fails" -> f
      [] OTHER                  -> FileOf("badjson")

\* (variant: each entry is put in front of the list instead of at its end)
BuildEntriesPrepend(selected, posting_times) ==
    [i \in 1..Len(selected) |->
        [city_id |-> selected[Len(selected) + 1 - i].id,
         posting_time_utc |-> posting_times[selected[Len(selected) + 1 - i].id],
         posted |-> FALSE]]

\* the entries get_or_create_schedule builds from the selection
BuildEntries(selected, posting_times) ==
    [i \in 1..Len(selected) |->
        [city_id |-> selected[i].id,
         posting_time_utc |-> posting_times[selected[i].id],
         posted |-> FALSE]]

NewSchedule(selected, posting_times, t) ==
    [date |-> IsoDate(t),
     selected_cities |-> BuildEntries(selected, posting_times),
     generation_timestamp |-> t]

-----------------------------------------------------------------------------
(* Invocations of the process.  An invocation calls get_or_create_schedule, *)
(* then needs_posting, mark_posted and save_schedule in any order, and      *)
(* exits.  get_or_create_schedule takes three steps: load and day check;    *)
(* selection and posting times (a clock read); date (a clock read), build   *)
(* and save.                                                                *)

Procs == {"A", "B"}

NoWork == [selected |-> <<>>, posting_times |-> <<>>, found |-> FALSE]
NoReturn == [status |-> "none", error |-> "none", generated |-> FALSE]
NoHist == [schedule |-> NoSchedule, day |-> -1]
NoAnswer == [asked |-> FALSE, result |-> FALSE]

Raised(e) == [status |-> "raised", error |-> e, generated |-> FALSE]
Returned(gen) == [status |-> "returned", error |-> "none", generated |-> gen]

NoEver == {}

\* ever after a step that writes a newly generated schedule
EverNew == IF file' # file /\ file'.kind = "valid" THEN PostedIn(file') ELSE ever

\* ever after a step that saves a schedule object
EverKept == ever \cup PostedIn(file')

\* hist after a step that leaves file' in the file
HistKept == IF file' = file THEN hist ELSE NoHist

GocLoad(p) ==
    /\ pc[p] = "idle"
    /\ LET r == LoadSchedule(file)
       IN  IF r.raised # "none"
           THEN /\ pc' = [pc EXCEPT ![p] = "failed"]
                /\ ret' = [ret EXCEPT ![p] = Raised(r.raised)]
                /\ UNCHANGED <<sched, work, hist>>
           ELSE IF r.found /\ IsCurrentDay(r.schedule, now)
           THEN /\ pc' = [pc EXCEPT ![p] = "ready"]
                /\ sched' = [sched EXCEPT ![p] = r.schedule]
                /\ ret' = [ret EXCEPT ![p] = Returned(FALSE)]
                /\ hist' = [schedule |-> r.schedule, day |-> IsoDate(now)]
                /\ UNCHANGED work
           ELSE /\ pc' = [pc EXCEPT ![p] = "select"]
                /\ work' = [work EXCEPT ![p] = [NoWork EXCEPT !.found = r.found]]
                /\ UNCHANGED <<sched, ret, hist>>
    /\ UNCHANGED <<config, now, file, marked, answer, sel, cpt, pcall, spn, gwr, mn, imc, recency, rcall, ever>>

GocSelect(p) ==
    /\ pc[p] = "select"
    /\ \E out \in SelectDailyCities(config, NUM_CITIES, RandomResolution) :
          IF out.phase = "raised"
          THEN /\ pc' = [pc EXCEPT ![p] = "failed"]
               /\ ret' = [ret EXCEPT ![p] = Raised(out.error)]
               /\ UNCHANGED work
          ELSE /\ pc' = [pc EXCEPT ![p] = "build"]
               /\ work' = [work EXCEPT ![p].selected = out.selected,
                                       ![p].posting_times =
                                           CalculatePostingTimes(out.selected, now)]
               /\ UNCHANGED ret
    /\ UNCHANGED <<config, now, file, sched, marked, hist, answer, sel, cpt, pcall, spn, gwr, mn, imc, recency, rcall, ever>>

\* (variant: the file is read again before the write, and a schedule for
\* today found there is taken instead of the one just built)
GocBuildSaveRecheck(p) ==
    /\ pc[p] = "build"
    /\ LET r == LoadSchedule(file)
           new_schedule ==
               IF r.raised = "none" /\ r.found /\ IsCurrentDay(r.schedule, now)
               THEN r.schedule
               ELSE NewSchedule(work[p].selected, work[p].posting_times, now)
       IN  /\ file' = FileAfterWrite(file, new_schedule, "ok")
           /\ pc' = [pc EXCEPT ![p] = "ready"]
           /\ sched' = [sched EXCEPT ![p] = new_schedule]
           /\ ret' = [ret EXCEPT ![p] = Returned(TRUE)]
           /\ hist' = [schedule |-> new_schedule, day |-> IsoDate(now)]
    /\ ever' = EverNew
    /\ UNCHANGED <<config, now, work, marked, answer, sel, cpt, pcall, spn, gwr, mn, imc, recency, rcall>>

GocBuildSave(p) ==
    /\ pc[p] = "build"
    /\ LET new_schedule == NewSchedule(work[p].selected, work[p].posting_times, now)
       IN  \E outcome \in WriteOutcomes :
              /\ file' = FileAfterWrite(file, new_schedule, outcome)
              /\ IF ~SaveRaises(outcome)
                 THEN /\ pc' = [pc EXCEPT ![p] = "ready"]
                      /\ sched' = [sched EXCEPT ![p] = new_schedule]
                      /\ ret' = [ret EXCEPT ![p] = Returned(TRUE)]
                      /\ hist' = [schedule |-> new_schedule, day |-> IsoDate(now)]
                 ELSE /\ pc' = [pc EXCEPT ![p] = "failed"]
                      /\ ret' = [ret EXCEPT ![p] = Raised("IOError")]
                      /\ hist' = HistKept
                      /\ UNCHANGED sched
    /\ ever' = EverNew
    /\ UNCHANGED <<config, now, work, marked, answer, sel, cpt, pcall, spn, gwr, mn, imc, recency, rcall>>

PostedCount(s) ==
    Cardinality({i \in 1..Len(s.selected_cities) : s.selected_cities[i].posted})

\* (variant: mark_posted writes the schedule through to the file)
MarkPostedSaving(p, c) ==
    /\ pc[p] = "ready"
    /\ Cardinality(marked[p] \cup {c}) <= MaxPosted + 1
    /\ MarkPostedOp(sched[p], c) = sched[p] \/ PostedCount(sched[p]) < MaxPosted
    /\ sched' = [sched EXCEPT ![p] = MarkPostedOp(sched[p], c)]
    /\ marked' = [marked EXCEPT ![p] = marked[p] \cup {c}]
    /\ file' = FileAfterWrite(file, MarkPostedOp(sched[p], c), "ok")
    /\ hist' = HistKept
    /\ ever' = EverKept
    /\ UNCHANGED <<config, now, pc, work, ret, answer, sel, cpt, pcall, spn, gwr, mn, imc, recency, rcall>>

MarkPosted(p, c) ==
    /\ pc[p] = "ready"
    /\ Cardinality(marked[p] \cup {c}) <= MaxPosted + 1
    /\ MarkPostedOp(sched[p], c) = sched[p] \/ PostedCount(sched[p]) < MaxPosted
    /\ sched' = [sched EXCEPT ![p] = MarkPostedOp(sched[p], c)]
    /\ marked' = [marked EXCEPT ![p] = marked[p] \cup {c}]
    /\ UNCHANGED <<config, now, file, pc, work, ret, hist, answer, sel, cpt, pcall, spn, gwr, mn, imc, recency, rcall, ever>>

SaveSchedule(p) ==
    /\ pc[p] = "ready"
    /\ \E outcome \in WriteOutcomes :
          /\ file' = FileAfterWrite(file, sched[p], outcome)
          /\ pc' = [pc EXCEPT ![p] = IF SaveRaises(outcome) THEN "failed" ELSE "ready"]
    /\ hist' = HistKept
    /\ ever' = EverKept
    /\ UNCHANGED <<config, now, sched, work, ret, marked, answer, sel, cpt, pcall, spn, gwr, mn, imc, recency, rcall>>

NeedsPostingCall(p, c, t, tol) ==
    /\ pc[p] = "ready"
    /\ answer' = [answer EXCEPT ![p] =
                     [asked |-> TRUE, result |-> NeedsPosting(sched[p], c, t, tol)]]
    /\ UNCHANGED <<config, now, file, pc, sched, work, ret, marked, hist, sel, cpt, pcall, spn, gwr, mn, imc, recency, rcall, ever>>

\* the process ends: its objects are gone
Exit(p) ==
    /\ pc[p] \in {"ready", "failed"}
    /\ pc' = [pc EXCEPT ![p] = "idle"]
    /\ sched' = [sched EXCEPT ![p] = NoSchedule]
    /\ work' = [work EXCEPT ![p] = NoWork]
    /\ ret' = [ret EXCEPT ![p] = NoReturn]
    /\ marked' = [marked EXCEPT ![p] = {}]
    /\ answer' = [answer EXCEPT ![p] = NoAnswer]
    /\ UNCHANGED <<config, now, file, hist, sel, cpt, pcall, spn, gwr, mn, imc, recency, rcall, ever>>

Tick ==
    /\ now + ClockStep < MaxDays * MinutesPerDay
    /\ now' = now + ClockStep
    /\ UNCHANGED <<config, file, pc, sched, work, ret, marked, hist, answer, sel, cpt, pcall, spn, gwr, mn, imc, recency, rcall, ever>>


-----------------------------------------------------------------------------
(* main.py: should_post_now and process_city *)

\* A posting time "HH:MM" as should_post_now reads it: split(":") and int
\* give hour * 60 + minute, or raise ValueError (ok = FALSE)
PostingTime(ok, m) == [ok |-> ok, minutes |-> m]

Abs(x) == IF x < 0 THEN -x ELSE x

Min(a, b) == IF a <= b THEN a ELSE b

\* should_post_now at the city's local minute of the day
ShouldPostNow(posting_times, current_minutes, tolerance_minutes) ==
    \E i \in 1..Len(posting_times) :
        /\ posting_times[i].ok
        /\ LET diff == Abs(current_minutes - posting_times[i].minutes)
           IN  Min(diff, MinutesPerDay - diff) <= tolerance_minutes

\* datetime.now(city.tz): hour * 60 + minute
LocalMinutes(t, utc_offset) == (t + utc_offset) % MinutesPerDay

\* A posting time as configured: the pieces posting_time.split(":") gives,
\* each with what int() makes of it (a piece int() rejects has int = FALSE)
Piece(v) == [int |-> TRUE, value |-> v]

BadPiece == [int |-> FALSE, value |-> 0]

\* (variant: an hour or minute off the clock is rejected like a bad format)
ParsePostingTimeRanged(pieces) ==
    IF Len(pieces) # 2 \/ \E i \in 1..Len(pieces) : ~pieces[i].int
    THEN PostingTime(FALSE, 0)
    ELSE IF pieces[1].value \notin 0..(HoursPerDay - 1)
            \/ pieces[2].value \notin 0..(MinutesPerHour - 1)
    THEN PostingTime(FALSE, 0)
    ELSE PostingTime(TRUE, pieces[1].value * MinutesPerHour + pieces[2].value)

\* pt_hour, pt_minute = map(int, posting_time.split(":"));
\* pt_minutes = pt_hour * 60 + pt_minute.  Any other number of pieces, or a
\* piece int() rejects, raises ValueError, which the loop catches
ParsePostingTime(pieces) ==
    IF Len(pieces) # 2 \/ \E i \in 1..Len(pieces) : ~pieces[i].int
    THEN PostingTime(FALSE, 0)
    ELSE PostingTime(TRUE, pieces[1].value * MinutesPerHour + pieces[2].value)

\* the posting times of a city, parsed one by one
ParsePostingTimes(texts) == [i \in 1..Len(texts) |-> ParsePostingTime(texts[i])]

\* The locals of a should_post_now call on entering the loop
SpnStart(posting_times, current_minutes, tolerance_minutes) ==
    [phase |-> "loop", posting_times |-> posting_times,
     current_minutes |-> current_minutes, tolerance_minutes |-> tolerance_minutes,
     i |-> 0, skipped |-> 0, result |-> FALSE]

\* One pass of "for posting_time in city.posting_times", or the return
\* after the last one
SpnStep(st) ==
    IF st.i = Len(st.posting_times) THEN [st EXCEPT !.phase = "returned"]
    ELSE LET pt == ParsePostingTime(st.posting_times[st.i + 1])
         IN  IF ~pt.ok
             THEN [st EXCEPT !.i = st.i + 1, !.skipped = st.skipped + 1]
             ELSE IF ShouldPostNow(<<pt>>, st.current_minutes, st.tolerance_minutes)
             THEN [st EXCEPT !.i = st.i + 1, !.phase = "returned", !.result = TRUE]
             ELSE [st EXCEPT !.i = st.i + 1]

SpnCall(posting_times, utc_offset, tolerance_minutes) ==
    /\ spn.phase = "none"
    /\ spn' = SpnStart(posting_times, LocalMinutes(now, utc_offset), tolerance_minutes)
    /\ UNCHANGED <<config, now, file, pc, sched, work, ret, marked, hist, answer, sel, cpt, pcall, mn, gwr, imc, recency, rcall, ever>>

SpnIterate ==
    /\ spn.phase = "loop"
    /\ spn' = SpnStep(spn)
    /\ UNCHANGED <<config, now, file, pc, sched, work, ret, marked, hist, answer, sel, cpt, pcall, mn, gwr, imc, recency, rcall, ever>>

PLATFORMS == <<"twitter", "instagram", "tiktok">>

PlatformSet == {PLATFORMS[i] : i \in 1..Len(PLATFORMS)}

\* What a collaborator's call can come to: a truthy value, None (or another
\* falsy value), or an exception it does not catch
Outcomes == {"value", "none", "raises"}

\* The call post_to_tiktok(city, image_path, weather, tiktok_creds, dry_run)
\* passes five positional arguments to a function of four parameters: it
\* raises TypeError before the function is entered
TiktokOutcomes == {"raises"}

\* (variant: post_to_tiktok takes the credentials like the other two)
PostOutcomesUniform(platform) == Outcomes

PostOutcomes(platform) == IF platform = "tiktok" THEN TiktokOutcomes ELSE Outcomes

NoResults == [p \in PlatformSet |-> "unset"]

\* (variant: the "if not ...: return" after a collaborator's call is missing)
AfterCallUnchecked(out, onward) == IF out = "raises" THEN "raised" ELSE onward

\* where process_city goes after a call of the weather or image collaborator
AfterCall(out, onward) ==
    CASE out = "value" -> onward
      [] out = "none"  -> "returned"
      [] OTHER         -> "raised"

\* process_city: the results dict and the window check
PcCall(city, force) ==
    /\ pcall.phase = "none"
    /\ LET skip == ~force /\ ~ShouldPostNow(ParsePostingTimes(city.posting_times),
                                  LocalMinutes(now, city.utc_offset), DEFAULT_TOLERANCE)
       IN  pcall' = [phase |-> IF skip THEN "returned" ELSE "weather",
                     city |-> city, force |-> force,
                     success |-> FALSE,
                     error |-> IF skip THEN "Not within posting window" ELSE "None",
                     results |-> NoResults, calls |-> <<>>,
                     weather |-> "unset", image |-> "unset", recorded |-> "unset"]
    /\ UNCHANGED <<config, now, file, pc, sched, work, ret, marked, hist, answer, sel, cpt, spn, gwr, mn, imc, recency, rcall, ever>>

\* Step 1: weather = get_weather_for_city(city); if not weather: return
PcWeather ==
    /\ pcall.phase = "weather"
    /\ \E out \in Outcomes :
          pcall' = [pcall EXCEPT
              !.calls = Append(@, "weather"),
              !.weather = out,
              !.phase = AfterCall(out, "image"),
              !.error = IF out = "none" THEN "Weather fetch failed" ELSE @]
    /\ UNCHANGED <<config, now, file, pc, sched, work, ret, marked, hist, answer, sel, cpt, spn, gwr, mn, imc, recency, rcall, ever>>

\* Step 2: image_path = generate_city_image(...); if not image_path: return
PcImage ==
    /\ pcall.phase = "image"
    /\ \E out \in Outcomes :
          pcall' = [pcall EXCEPT
              !.calls = Append(@, "image"),
              !.image = out,
              !.phase = AfterCall(out, PLATFORMS[1]),
              !.error = IF out = "none" THEN "Image generation failed" ELSE @]
    /\ UNCHANGED <<config, now, file, pc, sched, work, ret, marked, hist, answer, sel, cpt, spn, gwr, mn, imc, recency, rcall, ever>>

\* the phase after the i-th platform's block
AfterPlatform(i) == IF i < Len(PLATFORMS) THEN PLATFORMS[i + 1] ELSE "tally"

\* Step 3, one platform: if city.platforms.<p>: results[p] = post_to_<p>(...)
PcPost(i) ==
    /\ pcall.phase = PLATFORMS[i]
    /\ IF ~pcall.city.platforms[PLATFORMS[i]]
       THEN pcall' = [pcall EXCEPT !.phase = AfterPlatform(i)]
       ELSE \E out \in PostOutcomes(PLATFORMS[i]) :
               pcall' = [pcall EXCEPT
                   !.calls = Append(@, PLATFORMS[i]),
                   !.results[PLATFORMS[i]] = out,
                   !.phase = IF out = "raises" THEN "raised" ELSE AfterPlatform(i)]
    /\ UNCHANGED <<config, now, file, pc, sched, work, ret, marked, hist, answer, sel, cpt, spn, gwr, mn, imc, recency, rcall, ever>>

\* platforms_succeeded: the enabled platforms whose result is truthy
PlatformsSucceeded(c) ==
    {p \in PlatformSet : c.city.platforms[p] /\ c.results[p] = "value"}

\* results["success"] = len(platforms_succeeded) > 0; return results
PcTally ==
    /\ pcall.phase = "tally"
    /\ pcall' = [pcall EXCEPT !.success = PlatformsSucceeded(pcall) # {},
                              !.phase = "returned"]
    /\ UNCHANGED <<config, now, file, pc, sched, work, ret, marked, hist, answer, sel, cpt, spn, gwr, mn, imc, recency, rcall, ever>>

\* main: all_results.append(result), or the record of the except branch;
\* the summary counts a record as successful when its "success" is truthy
PcRecord ==
    /\ pcall.phase \in {"returned", "raised"}
    /\ pcall.recorded = "unset"
    /\ pcall' = [pcall EXCEPT
           !.recorded = IF pcall.phase = "returned" /\ pcall.success
                        THEN "successful" ELSE "failed"]
    /\ UNCHANGED <<config, now, file, pc, sched, work, ret, marked, hist, answer, sel, cpt, spn, gwr, mn, imc, recency, rcall, ever>>

\* main, from "if not cities_to_process" on: an empty list returns 0
MainStart(cities_to_process, force) ==
    [phase |-> IF cities_to_process = <<>> THEN "exited" ELSE "loop",
     cities_to_process |-> cities_to_process, force |-> force,
     all_results |-> <<>>, exit |-> 0]

\* what the loop body appends for a finished process_city call: its result,
\* or the record of the except branch
MainResult(c) ==
    IF c.phase = "returned"
    THEN [city |-> c.city, success |-> c.success, error |-> c.error, caught |-> FALSE]
    ELSE [city |-> c.city, success |-> FALSE, error |-> "str(e)", caught |-> TRUE]

\* return 0 if successful or not cities_to_process else 1
MainExitCode(all_results, cities_to_process) ==
    IF (\E i \in 1..Len(all_results) : all_results[i].success) \/ cities_to_process = <<>>
    THEN 0 ELSE 1

MainCall(cities_to_process, force) ==
    /\ mn.phase = "none"
    /\ pcall.phase = "none"
    /\ mn' = MainStart(cities_to_process, force)
    /\ UNCHANGED <<config, now, file, pc, sched, work, ret, marked, hist, answer, sel, cpt, pcall, spn, gwr, imc, recency, rcall, ever>>

\* for city in cities_to_process: result = process_city(city, ...)
MainProcess ==
    /\ mn.phase = "loop"
    /\ Len(mn.all_results) < Len(mn.cities_to_process)
    /\ PcCall(mn.cities_to_process[Len(mn.all_results) + 1], mn.force)

\* (variant: no try around process_city, an exception ends main)
MainAppendUncaught ==
    /\ mn.phase = "loop"
    /\ pcall.phase \in {"returned", "raised"}
    /\ mn' = IF pcall.phase = "raised"
             THEN [mn EXCEPT !.phase = "crashed", !.exit = 1]
             ELSE [mn EXCEPT !.all_results = Append(@, MainResult(pcall))]
    /\ pcall' = NoCall
    /\ UNCHANGED <<config, now, file, pc, sched, work, ret, marked, hist, answer, sel, cpt, spn, gwr, imc, recency, rcall, ever>>

\* all_results.append(...), in the try or in the except branch
MainAppend ==
    /\ mn.phase = "loop"
    /\ pcall.phase \in {"returned", "raised"}
    /\ mn' = [mn EXCEPT !.all_results = Append(@, MainResult(pcall))]
    /\ pcall' = NoCall
    /\ UNCHANGED <<config, now, file, pc, sched, work, ret, marked, hist, answer, sel, cpt, spn, gwr, imc, recency, rcall, ever>>

\* the summary and the return
MainSummary ==
    /\ mn.phase = "loop"
    /\ pcall.phase = "none"
    /\ Len(mn.all_results) = Len(mn.cities_to_process)
    /\ mn' = [mn EXCEPT !.phase = "exited",
                        !.exit = MainExitCode(mn.all_results, mn.cities_to_process)]
    /\ UNCHANGED <<config, now, file, pc, sched, work, ret, marked, hist, answer, sel, cpt, pcall, spn, gwr, imc, recency, rcall, ever>>

-----------------------------------------------------------------------------
(* image_generator.py: ImageGenerator.generate_with_retry *)

\* What a generate_image call can come to: a path, None (the API sent no
\* image, or anything inside its try raised), or an exception of build_prompt,
\* which runs before the try
ImageOutcomes == {"value", "none", "raises"}

\* max_attempts = max_attempts or config.global_config.retry_max_attempts
EffectiveAttempts(max_attempts, retry_max_attempts) ==
    IF max_attempts = 0 THEN retry_max_attempts ELSE max_attempts

\* The locals on entering the loop (argument: max_attempts as passed); log
\* lists the calls of generate_image and of time.sleep in order, outcomes
\* what each generate_image call gave
GenStart(max_attempts, retry_max_attempts) ==
    [phase |-> "loop", argument |-> max_attempts,
     retry_max_attempts |-> retry_max_attempts,
     max_attempts |-> EffectiveAttempts(max_attempts, retry_max_attempts),
     attempt |-> 0, log |-> <<>>, outcomes |-> <<>>, result |-> "unset"]

\* (variant: the wait follows every failed attempt, the last one too)
GenStepSleepAlways(st, out) ==
    IF st.attempt >= st.max_attempts
    THEN [st EXCEPT !.phase = "returned", !.result = "none"]
    ELSE LET called == [st EXCEPT !.attempt = st.attempt + 1,
                                  !.log = Append(st.log, "generate_image"),
                                  !.outcomes = Append(st.outcomes, out)]
         IN  CASE out = "value"  -> [called EXCEPT !.phase = "returned", !.result = "value"]
               [] out = "raises" -> [called EXCEPT !.phase = "raised"]
               [] OTHER -> [called EXCEPT !.log = Append(called.log, "sleep")]

\* One pass of "for attempt in range(1, max_attempts + 1)" whose
\* generate_image call comes to out, or the return None after the loop
GenStep(st, out) ==
    IF st.attempt >= st.max_attempts
    THEN [st EXCEPT !.phase = "returned", !.result = "none"]
    ELSE LET called == [st EXCEPT !.attempt = st.attempt + 1,
                                  !.log = Append(st.log, "generate_image"),
                                  !.outcomes = Append(st.outcomes, out)]
         IN  CASE out = "value"  -> [called EXCEPT !.phase = "returned", !.result = "value"]
               [] out = "raises" -> [called EXCEPT !.phase = "raised"]
               [] OTHER ->
                    IF called.attempt < called.max_attempts
                    THEN [called EXCEPT !.log = Append(called.log, "sleep")]
                    ELSE called

GenCall(max_attempts, retry_max_attempts) ==
    /\ gwr.phase = "none"
    /\ gwr' = GenStart(max_attempts, retry_max_attempts)
    /\ UNCHANGED <<config, now, file, pc, sched, work, ret, marked, hist, answer, sel, cpt, pcall, spn, mn, imc, recency, rcall, ever>>

GenIterate ==
    /\ gwr.phase = "loop"
    /\ \E out \in ImageOutcomes : gwr' = GenStep(gwr, out)
    /\ UNCHANGED <<config, now, file, pc, sched, work, ret, marked, hist, answer, sel, cpt, pcall, spn, mn, imc, recency, rcall, ever>>

-----------------------------------------------------------------------------
(* platforms/instagram.py: InstagramPoster.create_media_container *)

\* What one requests.post with raise_for_status can come to: a response
\* with the container id; a RequestException whose response text has
\* "Timeout" or "2207003"; a RequestException with another response text;
\* a RequestException without a response (no connection, or no answer
\* within the 60 seconds of the request)
RequestOutcomes == {"ok", "timeout error", "error response", "no response"}

\* params: media_type for Stories, the caption for feed posts
MediaParams(media_type) ==
    IF media_type = "STORIES" THEN {"image_url", "access_token", "media_type"}
    ELSE {"image_url", "access_token", "caption"}

\* The locals on entering the loop; log lists the calls of requests.post
\* and of time.sleep in order, outcomes what each request came to
ImcStart(media_type, max_retries) ==
    [phase |-> "loop", params |-> MediaParams(media_type), max_retries |-> max_retries,
     attempt |-> 0, log |-> <<>>, outcomes |-> <<>>, result |-> "unset"]

\* (variant: any error that is not a timeout returns None at once)
ImcStepNoRetry(st, out) ==
    IF st.attempt >= st.max_retries
    THEN [st EXCEPT !.phase = "returned", !.result = "None"]
    ELSE LET sent == [st EXCEPT !.log = Append(st.log, "post"),
                                !.outcomes = Append(st.outcomes, out)]
         IN  CASE out = "ok" -> [sent EXCEPT !.phase = "returned", !.result = "id"]
               [] out = "timeout error" ->
                    [sent EXCEPT !.log = Append(sent.log, "sleep"),
                                 !.attempt = st.attempt + 1]
               [] OTHER -> [sent EXCEPT !.phase = "returned", !.result = "None"]

\* One pass of "for attempt in range(max_retries)" (attempt counts from 0)
\* whose request comes to out, or the return None after the loop.  After an
\* error that is no timeout the function returns only "if attempt ==
\* max_retries - 1"; otherwise the for loop goes on to the next attempt
ImcStep(st, out) ==
    IF st.attempt >= st.max_retries
    THEN [st EXCEPT !.phase = "returned", !.result = "None"]
    ELSE LET sent == [st EXCEPT !.log = Append(st.log, "post"),
                                !.outcomes = Append(st.outcomes, out)]
         IN  CASE out = "ok" -> [sent EXCEPT !.phase = "returned", !.result = "id"]
               [] out = "timeout error" ->
                    [sent EXCEPT !.log = Append(sent.log, "sleep"),
                                 !.attempt = st.attempt + 1]
               [] OTHER ->
                    IF st.attempt = st.max_retries - 1
                    THEN [sent EXCEPT !.phase = "returned", !.result = "None"]
                    ELSE [sent EXCEPT !.attempt = st.attempt + 1]

ImcCall(media_type, max_retries) ==
    /\ imc.phase = "none"
    /\ imc' = ImcStart(media_type, max_retries)
    /\ UNCHANGED <<config, now, file, pc, sched, work, ret, marked, hist, answer, sel, cpt, pcall, spn, mn, gwr, recency, rcall, ever>>

ImcIterate ==
    /\ imc.phase = "loop"
    /\ \E out \in RequestOutcomes : imc' = ImcStep(imc, out)
    /\ UNCHANGED <<config, now, file, pc, sched, work, ret, marked, hist, answer, sel, cpt, pcall, spn, mn, gwr, recency, rcall, ever>>

-----------------------------------------------------------------------------
(* RecencyTracker and the single-pick form of the selector. No file of the   *)
(* sources implements them: they are modelled from the words of spec.md,     *)
(* sections 4.1 and 4.3. Timestamps are minutes since day 0 00:00.           *)

RETENTION_HOURS == 24

\* PostedRecord{id, now_utc}
PostedRecord(id, t) == [city_id |-> id, posted_at |-> t]

\* add_posted(id): appends a PostedRecord{id, now_utc}
AddPosted(records, id, t) == Append(records, PostedRecord(id, t))

\* (variant: a record exactly as old as the retention window is removed too)
CleanupOldInclusive(records, t, retention_hours) ==
    SelectSeq(records, LAMBDA r : r.posted_at > t - retention_hours * MinutesPerHour)

\* cleanup_old(retention_hours): removes every record whose timestamp is
\* older than now_utc - retention_hours
CleanupOld(records, t, retention_hours) ==
    SelectSeq(records, LAMBDA r : ~(r.posted_at < t - retention_hours * MinutesPerHour))

\* get_excluded_ids(): the identifiers of all retained records, a city once
\* per record
GetExcludedIds(records) == [i \in 1..Len(records) |-> records[i].city_id]

\* the city ids the tracker is called with
TrackerIds == 1..MaxPool

NoId == 0

\* no call of the tracker yet
NoTrackerCall == [op |-> "none"]

RecAddPosted(id) ==
    /\ Len(recency) < MaxRecords
    /\ recency' = AddPosted(recency, id, now)
    /\ rcall' = [op |-> "add_posted", city_id |-> id, at |-> now]
    /\ UNCHANGED <<config, now, file, pc, sched, work, ret, marked, hist, answer, sel, cpt, pcall, spn, gwr, mn, imc, ever>>

\* returns the count removed
RecCleanupOld ==
    /\ recency' = CleanupOld(recency, now, RETENTION_HOURS)
    /\ rcall' = [op |-> "cleanup_old", at |-> now, before |-> recency,
                 removed |-> Len(recency) - Len(recency')]
    /\ UNCHANGED <<config, now, file, pc, sched, work, ret, marked, hist, answer, sel, cpt, pcall, spn, gwr, mn, imc, ever>>

\* after: the city the call just before it added, if that was an add_posted
RecGetExcludedIds ==
    /\ rcall' = [op |-> "get_excluded_ids", at |-> now,
                 after |-> IF rcall.op = "add_posted" THEN rcall.city_id ELSE NoId,
                 result |-> GetExcludedIds(recency)]
    /\ UNCHANGED <<config, now, file, pc, sched, work, ret, marked, hist, answer, sel, cpt, pcall, spn, gwr, mn, imc, recency, ever>>

\* the clock moves on by d minutes
Advance(d) ==
    /\ now + d < MaxDays * MinutesPerDay
    /\ now' = now + d
    /\ UNCHANGED <<config, file, pc, sched, work, ret, marked, hist, answer, sel, cpt, pcall, spn, gwr, mn, imc, recency, rcall, ever>>

\* (variant: no fallback, the filtered pool is used as it is)
SinglePickPoolFiltered(cfg, excluded) ==
    SelectSeq(EnabledCities(cfg), LAMBDA c : \A i \in 1..Len(excluded) : excluded[i] # c.id)

\* The pool of the single pick: enabled minus excluded, and the full enabled
\* pool when that is empty
SinglePickPool(cfg, excluded) ==
    LET enabled  == EnabledCities(cfg)
        filtered == SelectSeq(enabled, LAMBDA c : \A i \in 1..Len(excluded) : excluded[i] # c.id)
    IN  IF filtered = <<>> THEN enabled ELSE filtered

\* the selector's form k = 1 on that pool (its members are all enabled)
SinglePickStart(cfg, excluded) == SelectStart(SinglePickPool(cfg, excluded), 1)

\* the orchestrator asks the tracker for the excluded ids, then the selector
PickCall ==
    /\ sel.phase = "none"
    /\ sel' = SinglePickStart(config, GetExcludedIds(recency))
    /\ UNCHANGED <<config, now, file, pc, sched, work, ret, marked, hist, answer, cpt, pcall, spn, gwr, mn, imc, recency, rcall, ever>>

-----------------------------------------------------------------------------
(* Specifications *)

Idle ==
    /\ pc = [p \in Procs |-> "idle"]
    /\ sched = [p \in Procs |-> NoSchedule]
    /\ work = [p \in Procs |-> NoWork]
    /\ ret = [p \in Procs |-> NoReturn]
    /\ marked = [p \in Procs |-> {}]
    /\ answer = [p \in Procs |-> NoAnswer]
    /\ hist = NoHist
    /\ sel = NoCall
    /\ cpt = NoCall
    /\ pcall = NoCall
    /\ spn = NoCall
    /\ mn = NoCall
    /\ gwr = NoCall
    /\ imc = NoCall
    /\ recency = NoRecords
    /\ rcall = NoTrackerCall
    /\ ever = NoEver

ClockPoints == {t \in 0..(MaxDays * MinutesPerDay - 1) : t % ClockStep = 0}

\* NUM_CITIES + 1 configured cities, the first n of them enabled
MainWeights == <<200, 200, 50, 16, 5, 1, 1>>

MainConfig(n) ==
    [i \in 1..(NUM_CITIES + 1) |->
        [id |-> i, enabled |-> i <= n, weight |-> MainWeights[i]]]

MainConfigs == {MainConfig(n) : n \in (NUM_CITIES - 1)..(NUM_CITIES + 1)}

CityIds == 1..(NUM_CITIES + 1)

(* Sequential invocations of one process over the days *)

Init ==
    /\ config \in MainConfigs
    /\ now = 0
    /\ file \in {FileOf(k) : k \in FileKinds \ {"valid"}}
    /\ Idle

Next ==
    \/ GocLoad("A")
    \/ GocSelect("A")
    \/ GocBuildSave("A")
    \/ \E c \in CityIds : MarkPosted("A", c)
    \/ SaveSchedule("A")
    \/ Exit("A")
    \/ Tick

Spec == Init /\ [][Next]_vars

(* One invocation asking about and marking the entries of its schedule object *)

Offsets(tol) == {-(tol + 1), -tol, 0, tol, tol + 1}

\* now, and the last instant of the city's window and the one after it
ProbeTimes(s, c, tol) ==
    {now} \cup
    {s.selected_cities[i].posting_time_utc + d :
        i \in {j \in 1..Len(s.selected_cities) : s.selected_cities[j].city_id = c},
        d \in {tol, tol + 1}}

InitSchedule ==
    /\ config = MainConfig(NUM_CITIES + 1)
    /\ now \in ClockPoints
    /\ file = FileOf("missing")
    /\ Idle

NextSchedule ==
    \/ GocLoad("A")
    \/ GocSelect("A")
    \/ GocBuildSave("A")
    \/ \E c \in CityIds : \E t \in ProbeTimes(sched["A"], c, DEFAULT_TOLERANCE) :
           NeedsPostingCall("A", c, t, DEFAULT_TOLERANCE)
    \/ \E c \in CityIds : MarkPosted("A", c)
    \/ SaveSchedule("A")

SpecSchedule == InitSchedule /\ [][NextSchedule]_vars

(* A call of select_daily_cities *)

InitSelect ==
    /\ config \in {WithIds(c) : c \in PoolConfigs}
    /\ now = 0
    /\ file = FileOf("missing")
    /\ Idle

NextSelect ==
    \/ \E k \in 0..(MaxPool + 1) : SelCall(k)
    \/ SelIterate

SpecSelect == InitSelect /\ [][NextSelect]_vars

(* A call of calculate_posting_times *)

InitTimes ==
    /\ config = <<>>
    /\ now \in ClockPoints
    /\ file = FileOf("missing")
    /\ Idle

NextTimes ==
    \/ \E cities \in CityLists : CptCall(cities)
    \/ CptIterate

SpecTimes == InitTimes /\ [][NextTimes]_vars

(* Two invocations of the process running at once on one schedule file *)

\* the cities the two invocations mark: the first two configured
RaceCities == {1, 2}

InitRace ==
    /\ config = MainConfig(NUM_CITIES + 1)
    /\ now = 0
    /\ file = FileOf("missing")
    /\ Idle

NextRace ==
    \E p \in Procs :
        \/ GocLoad(p)
        \/ GocSelect(p)
        \/ GocBuildSave(p)
        \/ \E c \in RaceCities : MarkPosted(p, c)
        \/ SaveSchedule(p)
        \/ Exit(p)

SpecRace == InitRace /\ [][NextRace]_vars

(* A call of process_city by main *)

\* no posting time; "00:00"; "bad" and a time half an hour after a tick;
\* "30:00"
PostingTimeLists ==
    {<<>>,
     <<<<Piece(0), Piece(0)>>>>,
     <<<<BadPiece>>,
       <<Piece((ClockStep + DEFAULT_TOLERANCE) \div MinutesPerHour),
         Piece((ClockStep + DEFAULT_TOLERANCE) % MinutesPerHour)>>>>,
     <<<<Piece(30), Piece(0)>>>>}

PlatformChoices == [PlatformSet -> BOOLEAN]

ProcessCities ==
    {[platforms |-> pf, posting_times |-> pts, utc_offset |-> off] :
        pf \in PlatformChoices, pts \in PostingTimeLists, off \in {0, MinutesPerHour}}

InitCity ==
    /\ config = <<>>
    /\ now \in ClockPoints
    /\ file \in {FileOf("missing"), FileOf("badjson")}
    /\ Idle

NextCity ==
    \/ \E city \in ProcessCities : \E force \in BOOLEAN : PcCall(city, force)
    \/ PcWeather
    \/ PcImage
    \/ \E i \in 1..Len(PLATFORMS) : PcPost(i)
    \/ PcTally
    \/ PcRecord

SpecCity == InitCity /\ [][NextCity]_vars


(* The recency tracker over a moving clock *)

\* the clock advance of the retention window and one hour more
PastRetention == (RETENTION_HOURS + 1) * MinutesPerHour

InitRecency ==
    /\ config = <<>>
    /\ now = 0
    /\ file = FileOf("missing")
    /\ Idle

NextRecency ==
    \/ \E id \in TrackerIds : RecAddPosted(id)
    \/ RecCleanupOld
    \/ RecGetExcludedIds
    \/ Tick
    \/ Advance(PastRetention)

SpecRecency == InitRecency /\ [][NextRecency]_vars

(* A single pick against the tracker's exclusion list *)

PickConfigs == {WithIds(c) : c \in {pc0 \in PoolConfigs : Len(pc0) < MaxPool}}

InitPick ==
    /\ config \in PickConfigs
    /\ now = 0
    /\ file = FileOf("missing")
    /\ Idle

NextPick ==
    \/ \E id \in 1..(MaxPool - 1) : sel.phase = "none" /\ RecAddPosted(id)
    \/ PickCall
    \/ SelIterate

SpecPick == InitPick /\ [][NextPick]_vars


(* A call of should_post_now *)

\* "00:10", "23:50", "12:00"; "30:00" and "-1:30", off the clock; "bad",
\* "08:00:00" and "8", which the parse rejects
PostingTimeTexts ==
    {<<Piece(0), Piece(10)>>, <<Piece(23), Piece(50)>>, <<Piece(12), Piece(0)>>,
     <<Piece(30), Piece(0)>>, <<Piece(-1), Piece(30)>>,
     <<BadPiece>>, <<Piece(8), Piece(0), Piece(0)>>, <<Piece(8)>>}

PostingTimeTextLists == UNION {[1..n -> PostingTimeTexts] : n \in 0..MaxTimes}

\* local times of day around midnight and at noon
WindowClock ==
    {0, 10, DEFAULT_TOLERANCE - 10, DEFAULT_TOLERANCE - 9, 12 * MinutesPerHour,
     MinutesPerDay - 1}

InitWindow ==
    /\ config = <<>>
    /\ now \in WindowClock
    /\ file = FileOf("missing")
    /\ Idle

NextWindow ==
    \/ \E pts \in PostingTimeTextLists : SpnCall(pts, 0, DEFAULT_TOLERANCE)
    \/ SpnIterate

SpecWindow == InitWindow /\ [][NextWindow]_vars

(* A run of main from the list of cities on *)

\* cities posting to twitter alone or to tiktok alone, with no posting time
\* or with "00:00"
MainCities ==
    {[platforms |-> [p \in PlatformSet |-> p = on], posting_times |-> pts, utc_offset |-> 0] :
        on \in {"twitter", "tiktok"}, pts \in {<<>>, <<<<Piece(0), Piece(0)>>>>}}

MainCityLists == UNION {[1..n -> MainCities] : n \in 0..MaxCities}

InitMain ==
    /\ config = <<>>
    /\ now = 0
    /\ file = FileOf("missing")
    /\ Idle

NextMain ==
    \/ \E cs \in MainCityLists : \E force \in BOOLEAN : MainCall(cs, force)
    \/ MainProcess
    \/ PcWeather
    \/ PcImage
    \/ \E i \in 1..Len(PLATFORMS) : PcPost(i)
    \/ PcTally
    \/ MainAppend
    \/ MainSummary

SpecMain == InitMain /\ [][NextMain]_vars

(* A call of generate_with_retry *)

InitRetry ==
    /\ config = <<>>
    /\ now = 0
    /\ file = FileOf("missing")
    /\ Idle

NextRetry ==
    \/ \E m, r \in 0..MaxAttempts : GenCall(m, r)
    \/ GenIterate

SpecRetry == InitRetry /\ [][NextRetry]_vars

(* A call of create_media_container *)

InitContainer ==
    /\ config = <<>>
    /\ now = 0
    /\ file = FileOf("missing")
    /\ Idle

NextContainer ==
    \/ \E media_type \in {"IMAGE", "STORIES"} : \E m \in 0..MaxRetries :
          ImcCall(media_type, m)
    \/ ImcIterate

SpecContainer == InitContainer /\ [][NextContainer]_vars

(* mark_posted on a schedule object of any content *)

\* entries of the cities 1 and 2, posted or not; a city may have two entries
MarkEntries ==
    [city_id : RaceCities, posting_time_utc : {0, ClockStep}, posted : BOOLEAN]

MarkSchedules ==
    {[date |-> 0, selected_cities |-> es, generation_timestamp |-> 0] :
        es \in UNION {[1..n -> MarkEntries] : n \in 0..MaxEntries}}

InitMark ==
    /\ config = <<>>
    /\ now = 0
    /\ file = FileOf("missing")
    /\ pc = [p \in Procs |-> IF p = "A" THEN "ready" ELSE "idle"]
    /\ sched \in {[p \in Procs |-> IF p = "A" THEN s ELSE NoSchedule] : s \in MarkSchedules}
    /\ work = [p \in Procs |-> NoWork]
    /\ ret = [p \in Procs |-> NoReturn]
    /\ marked = [p \in Procs |-> {}]
    /\ answer = [p \in Procs |-> NoAnswer]
    /\ hist = NoHist
    /\ sel = NoCall
    /\ cpt = NoCall
    /\ pcall = NoCall
    /\ spn = NoCall
    /\ mn = NoCall
    /\ gwr = NoCall
    /\ imc = NoCall
    /\ recency = NoRecords
    /\ rcall = NoTrackerCall
    /\ ever = NoEver

NextMark == \E c \in 1..(Cardinality(RaceCities) + 1) : MarkPosted("A", c)

SpecMark == InitMark /\ [][NextMark]_vars

(* Invocations whose caller marks a city only when needs_posting is true *)
(* at the clock's reading                                                *)

\* the clock's readings of interest: the coarse ones, and for the schedule
\* held the first minute of every entry's window and the first after it
EligibleInstants(s) ==
    ClockPoints \cup
    {t \in {s.selected_cities[i].posting_time_utc + d :
               i \in 1..Len(s.selected_cities),
               d \in {-DEFAULT_TOLERANCE, DEFAULT_TOLERANCE + 1}} :
        t >= 0 /\ t < MaxDays * MinutesPerDay}

\* the clock moves forward to a later reading
EligibleTick ==
    /\ \E t \in EligibleInstants(sched["A"]) : t > now /\ now' = t
    /\ UNCHANGED <<config, file, pc, sched, work, ret, marked, hist, answer, sel, cpt, pcall, spn, gwr, mn, imc, recency, rcall, ever>>

\* needs_posting(c, now) answered true, then mark_posted(c)
PostEligible(p, c) ==
    /\ NeedsPosting(sched[p], c, now, DEFAULT_TOLERANCE)
    /\ MarkPosted(p, c)

InitEligible ==
    /\ config = MainConfig(NUM_CITIES)
    /\ now \in ClockPoints
    /\ file = FileOf("missing")
    /\ Idle

NextEligible ==
    \/ GocLoad("A")
    \/ GocSelect("A")
    \/ GocBuildSave("A")
    \/ \E c \in CityIds : PostEligible("A", c)
    \/ SaveSchedule("A")
    \/ Exit("A")
    \/ EligibleTick

SpecEligible == InitEligible /\ [][NextEligible]_vars

(* One invocation generating its schedule and setting flags in it *)

NextDue ==
    \/ GocLoad("A")
    \/ GocSelect("A")
    \/ GocBuildSave("A")
    \/ \E c \in CityIds : MarkPosted("A", c)

SpecDue == InitSchedule /\ [][NextDue]_vars

-----------------------------------------------------------------------------
(* Properties *)

AllPositive(cities) == \A i \in 1..Len(cities) : cities[i].weight > 0

Distinct(cities) ==
    \A i, j \in 1..Len(cities) : cities[i].id = cities[j].id => i = j

\* C1: with n >= 1 enabled cities of positive weight and 1 <= k <= n,
\* select_daily_cities never raises, every draw is possible, the cities
\* selected so far are pairwise distinct members of the enabled set, none of
\* them is still in the pool, and the call returns exactly k cities.
C1_SelectsKDistinct ==
    LET enabled == EnabledCities(config)
    IN  (/\ sel.phase # "none"
         /\ Len(enabled) >= 1
         /\ AllPositive(enabled)
         /\ 1 <= sel.k /\ sel.k <= Len(enabled))
        => /\ sel.phase # "raised"
           /\ Distinct(sel.selected)
           /\ Ids(sel.selected) \subseteq Ids(enabled)
           /\ Ids(sel.selected) \cap Ids(sel.remaining) = {}
           /\ Len(sel.selected) = sel.draws
           /\ sel.draws <= sel.k
           /\ sel.phase = "returned" => Len(sel.selected) = sel.k
           /\ sel.phase = "loop" =>
                  SelectIterate(sel, SumTo(sel.weights, Len(sel.weights))) # {}

C1_Witness ==
    /\ sel.phase = "returned"
    /\ sel.k = MaxPool
    /\ Len(sel.selected) = MaxPool
    /\ AllPositive(EnabledCities(config))
    /\ \E i \in 1..Len(config) : config[i].weight > 1

\* C2: when more cities are requested than are enabled, select_daily_cities
\* raises its ValueError without a draw; the step of get_or_create_schedule
\* that runs the selection then fails with that error, returns no schedule
\* and leaves the schedule file as it was.
C2_NoDraw ==
    \A k \in 0..(NUM_CITIES + 2) :
        Len(EnabledCities(config)) < k =>
            \A out \in SelectDailyCities(config, k, RandomResolution) :
                /\ out.phase = "raised"
                /\ out.error = "ValueError: cannot select"
                /\ out.draws = 0
                /\ out.selected = <<>>

C2_Step ==
    \A p \in Procs :
        (/\ pc[p] = "select"
         /\ pc'[p] # "select"
         /\ Len(EnabledCities(config)) < NUM_CITIES)
        => /\ pc'[p] = "failed"
           /\ ret'[p] = Raised("ValueError: cannot select")
           /\ sched'[p] = NoSchedule
           /\ file' = file

C2_TooFewCitiesRaises == [](C2_NoDraw) /\ [][C2_Step]_vars

C2_Witness ==
    /\ pc["A"] = "failed"
    /\ ret["A"] = Raised("ValueError: cannot select")
    /\ Len(EnabledCities(config)) = NUM_CITIES - 1

\* C3: a call of get_or_create_schedule that starts on the UTC day on which
\* the previous call returned, with the file as that call left it, returns
\* the schedule that call returned, selects nothing and writes nothing.
C3_Step ==
    \A p \in Procs :
        (/\ pc[p] = "idle"
         /\ pc'[p] # "idle"
         /\ hist.schedule # NoSchedule
         /\ hist.day = IsoDate(now))
        => /\ pc'[p] = "ready"
           /\ ret'[p] = Returned(FALSE)
           /\ sched'[p] = hist.schedule
           /\ file' = file

C3_SameDaySameSchedule == [][C3_Step]_vars

C3_Witness ==
    /\ pc["A"] = "ready"
    /\ ret["A"] = Returned(FALSE)
    /\ sched["A"] = hist.schedule
    /\ hist.day = IsoDate(now)
    /\ now > 0

\* C4: get_or_create_schedule returns a loaded schedule only if its date is
\* today's; otherwise it goes on to generate, and fails only for want of
\* enabled cities or on the write.  A generated schedule carries today's
\* date, has no entry posted and is what the file holds when the call
\* returns; every returned schedule carries the date of the day of the call.
C4_Step ==
    \A p \in Procs :
        /\ (pc[p] = "idle" /\ pc'[p] = "ready")
               => /\ LoadSchedule(file).found
                  /\ LoadSchedule(file).schedule.date = IsoDate(now)
                  /\ sched'[p] = LoadSchedule(file).schedule
        /\ (/\ pc[p] = "idle" /\ pc'[p] # "idle"
            /\ LoadSchedule(file).raised = "none"
            /\ ~(LoadSchedule(file).found
                    /\ LoadSchedule(file).schedule.date = IsoDate(now)))
               => pc'[p] = "select"
        /\ (pc[p] = "select" /\ pc'[p] = "failed")
               => Len(EnabledCities(config)) < NUM_CITIES
        /\ (pc[p] = "build" /\ pc'[p] = "failed")
               => ret'[p] = Raised("IOError")
        /\ (pc[p] = "build" /\ pc'[p] = "ready")
               => /\ ret'[p] = Returned(TRUE)
                  /\ sched'[p].date = IsoDate(now)
                  /\ Len(sched'[p].selected_cities) > 0
                  /\ \A i \in 1..Len(sched'[p].selected_cities) :
                         ~sched'[p].selected_cities[i].posted
                  /\ file' = [kind |-> "valid", data |-> sched'[p]]
        /\ (pc[p] # "ready" /\ pc'[p] = "ready")
               => sched'[p].date = IsoDate(now)

C4_StaleIsRegenerated == [][C4_Step]_vars

C4_Witness ==
    /\ pc["A"] = "ready"
    /\ ret["A"] = Returned(TRUE)
    /\ work["A"].found
    /\ IsoDate(now) > 0
    /\ sched["A"].date = IsoDate(now)
    /\ file = [kind |-> "valid", data |-> sched["A"]]

\* needs_posting as the documentation words it: some entry of the city is
\* not posted and lies within the tolerance of the given time
Eligible(s, c, t, tol) ==
    \E i \in 1..Len(s.selected_cities) :
        /\ s.selected_cities[i].city_id = c
        /\ s.selected_cities[i].posted = FALSE
        /\ t - s.selected_cities[i].posting_time_utc <= tol
        /\ s.selected_cities[i].posting_time_utc - t <= tol

HasEntry(s, c) == \E i \in 1..Len(s.selected_cities) : s.selected_cities[i].city_id = c

CheckedTolerances == {0, DEFAULT_TOLERANCE, DEFAULT_TOLERANCE + 1}

\* instants around every scheduled time of the schedule
CheckedTimes(s, tol) ==
    {now} \cup
    {s.selected_cities[i].posting_time_utc + d :
        i \in 1..Len(s.selected_cities), d \in Offsets(tol)}

\* C5: needs_posting is true exactly when the schedule has an entry of the
\* city that is not posted and whose scheduled time differs from the given
\* time by at most the tolerance (ends included); it is false for a city
\* without an entry.
C5_NeedsPostingIff ==
    \A p \in Procs : \A c \in CityIds \cup {0} : \A tol \in CheckedTolerances :
        \A t \in CheckedTimes(sched[p], tol) :
            /\ NeedsPosting(sched[p], c, t, tol) <=> Eligible(sched[p], c, t, tol)
            /\ ~HasEntry(sched[p], c) => ~NeedsPosting(sched[p], c, t, tol)

C5_Witness ==
    /\ pc["A"] = "ready"
    /\ answer["A"].asked
    /\ answer["A"].result
    /\ \E c \in CityIds :
          /\ HasEntry(sched["A"], c)
          /\ \E i \in 1..Len(sched["A"].selected_cities) :
                LET e == sched["A"].selected_cities[i]
                IN  /\ e.city_id = c
                    /\ NeedsPosting(sched["A"], c,
                           e.posting_time_utc + DEFAULT_TOLERANCE, DEFAULT_TOLERANCE)
                    /\ ~NeedsPosting(sched["A"], c,
                           e.posting_time_utc + DEFAULT_TOLERANCE + 1, DEFAULT_TOLERANCE)
    /\ \E c \in CityIds : ~HasEntry(sched["A"], c)

C7_Idempotent ==
    \A p \in Procs : \A c \in CityIds :
        MarkPostedOp(MarkPostedOp(sched[p], c), c) = MarkPostedOp(sched[p], c)

C7_Step ==
    \A p \in Procs :
        (pc[p] = "ready" /\ pc'[p] # "idle")
        => /\ Len(sched'[p].selected_cities) = Len(sched[p].selected_cities)
           /\ \A i \in 1..Len(sched[p].selected_cities) :
                  sched[p].selected_cities[i].posted
                      => sched'[p].selected_cities[i].posted

PositionOf(cities, id) == CHOOSE i \in 1..Len(cities) : cities[i].id = id

\* C8: the i-th city (from 0) of N is scheduled floor(i * 1440 / N) minutes
\* after midnight of the current day; an empty list gives an empty result.
C8_FloorOfExactOffset ==
    /\ cpt.phase # "none" =>
          \A id \in DOMAIN cpt.posting_schedule :
              cpt.posting_schedule[id] =
                  Midnight(now) +
                  ((PositionOf(cpt.cities, id) - 1) * MinutesPerDay) \div Len(cpt.cities)
    /\ (cpt.phase = "returned" /\ cpt.cities = <<>>) => DOMAIN cpt.posting_schedule = {}

\* the posting time of the i-th city of the list (from 1)
TimeAt(i) == cpt.posting_schedule[cpt.cities[i].id]

\* C9: the posting times, in list order, never decrease, lie within the
\* current UTC day, start at 00:00, and consecutive ones are 1440/N minutes
\* apart give or take a minute.
C9_EvenlySpread ==
    cpt.phase \in {"loop", "returned"} =>
        LET n == Len(cpt.cities)
        IN  /\ DOMAIN cpt.posting_schedule = {cpt.cities[i].id : i \in 1..cpt.i}
            /\ cpt.phase = "returned" => cpt.i = n
            /\ cpt.i >= 1 => TimeAt(1) = Midnight(now)
            /\ \A i \in 1..cpt.i :
                   /\ TimeAt(i) >= Midnight(now)
                   /\ TimeAt(i) < Midnight(now) + MinutesPerDay
            /\ \A i \in 1..(cpt.i - 1) :
                   LET gap == TimeAt(i + 1) - TimeAt(i)
                   IN  /\ gap >= 0
                       /\ gap * n - MinutesPerDay <= n
                       /\ MinutesPerDay - gap * n <= n

C9_Witness ==
    /\ cpt.phase = "returned"
    /\ Len(cpt.cities) = 5
    /\ cpt.cities[1].id = 5
    /\ TimeAt(2) - TimeAt(1) = 287
    /\ now > 0

\* C10: get_or_create_schedule never fails because the schedule file could
\* not be read.
C10_LoadFailureNotFatal ==
    \A p \in Procs :
        ret[p].status = "raised" =>
            ret[p].error \in {"ValueError: cannot select", "IOError"}


\* the file holds exactly the dump of schedule s
Persisted(s) == file' = [kind |-> "valid", data |-> ToDict(s)]

\* C11: a write of the schedule file that does not leave the schedule in the
\* file raises: save_schedule ends in failure, and get_or_create_schedule
\* then raises IOError and returns nothing; a generated schedule is returned
\* only when the file holds it.
C11_Step ==
    \A p \in Procs :
        /\ (pc[p] = "build" /\ pc'[p] # "build")
               => IF Persisted(NewSchedule(work[p].selected, work[p].posting_times, now))
                  THEN /\ pc'[p] = "ready"
                       /\ ret'[p] = Returned(TRUE)
                       /\ Persisted(sched'[p])
                  ELSE /\ pc'[p] = "failed"
                       /\ ret'[p] = Raised("IOError")
                       /\ sched'[p] = NoSchedule
        /\ (pc[p] = "ready" /\ pc'[p] = "ready" /\ file' # file)
               => Persisted(sched[p])
        /\ (ret'[p] = Returned(TRUE) /\ ret[p] # Returned(TRUE))
               => Persisted(sched'[p])

C11_WriteFailureIsFatal == [][C11_Step]_vars

C11_Witness ==
    /\ pc["A"] = "failed"
    /\ ret["A"] = Raised("IOError")
    /\ sched["A"] = NoSchedule
    /\ file = FileOf("badjson")
    /\ work["A"].selected # <<>>
\* C12: the city is counted as successful by main exactly when the post to
\* one of its enabled platforms succeeded, and a platform that is not
\* enabled gets no result.
C12_SuccessIffSomePost ==
    pcall.phase # "none" =>
        /\ pcall.recorded # "unset" =>
               (pcall.recorded = "successful"
                    <=> \E p \in PlatformSet :
                            pcall.city.platforms[p] /\ pcall.results[p] = "value")
        /\ \A p \in PlatformSet :
               ~pcall.city.platforms[p] => pcall.results[p] = "unset"

\* position of a collaborator in the order of process_city
CallRank(name) ==
    CASE name = "weather" -> 1
      [] name = "image"   -> 2
      [] OTHER            -> 2 + CHOOSE i \in 1..Len(PLATFORMS) : PLATFORMS[i] = name

\* C13: process_city calls its collaborators at most once each, in the
\* order weather, image, platforms; after a failed weather fetch nothing else
\* is called, after a failed image generation no platform is called, in both
\* cases the city is not successful; no step of process_city touches the
\* schedule file or the recency records.
C13_Order ==
    pcall.phase # "none" =>
        /\ \A i, j \in 1..Len(pcall.calls) :
               i < j => CallRank(pcall.calls[i]) < CallRank(pcall.calls[j])
        /\ pcall.weather \in {"none", "raises"} =>
               /\ pcall.calls = <<"weather">>
               /\ ~pcall.success
               /\ pcall.recorded # "successful"
               /\ pcall.phase \in {"returned", "raised"}
        /\ pcall.image \in {"none", "raises"} =>
               /\ pcall.calls = <<"weather", "image">>
               /\ ~pcall.success
               /\ pcall.recorded # "successful"
               /\ pcall.phase \in {"returned", "raised"}
        /\ pcall.calls # <<>> => pcall.calls[1] = "weather"
        /\ Len(pcall.calls) > 1 => pcall.calls[2] = "image" /\ pcall.weather = "value"
        /\ Len(pcall.calls) > 2 => pcall.image = "value"

C13_Frame == pcall' # pcall => file' = file /\ recency' = recency

C13_FailureStopsTheCycle == [](C13_Order) /\ [][C13_Frame]_vars

C13_Witness ==
    /\ pcall.phase = "returned"
    /\ pcall.weather = "value"
    /\ pcall.image = "none"
    /\ pcall.calls = <<"weather", "image">>
    /\ pcall.recorded = "failed"
    /\ pcall.error = "Image generation failed"
    /\ file = FileOf("badjson")
\* the enabled cities whose weight is positive
PositiveCount(cities) == Cardinality({i \in 1..Len(cities) : cities[i].weight > 0})

HasNonPositive(cities) == \E i \in 1..Len(cities) : cities[i].weight <= 0

NoNegative(cities) == \A i \in 1..Len(cities) : cities[i].weight >= 0

\* C14 as stated: with a candidate of weight <= 0 in the pool and
\* 1 <= k <= size, select_daily_cities does not raise and draws no candidate
\* of weight <= 0.
C14_NonPositiveAccepted ==
    LET enabled == EnabledCities(config)
    IN  (/\ sel.phase # "none"
         /\ HasNonPositive(enabled)
         /\ 1 <= sel.k /\ sel.k <= Len(enabled))
        => /\ sel.phase # "raised"
           /\ AllPositive(sel.selected)

\* C14 amended: a candidate of weight <= 0 is never drawn; with no negative
\* weight in the pool the call returns when at least k candidates have a
\* positive weight, and otherwise raises the ValueError of random.choices
\* ("Total of weights must be greater than zero") once the candidates of
\* positive weight are used up.
C14_NonPositiveNeverDrawn ==
    LET enabled == EnabledCities(config)
    IN  (/\ sel.phase # "none"
         /\ HasNonPositive(enabled)
         /\ 1 <= sel.k /\ sel.k <= Len(enabled))
        => /\ AllPositive(sel.selected)
           /\ NoNegative(enabled) =>
                  /\ sel.draws <= PositiveCount(enabled)
                  /\ PositiveCount(enabled) >= sel.k => sel.phase # "raised"
                  /\ (PositiveCount(enabled) < sel.k /\ sel.phase # "loop")
                         => /\ sel.phase = "raised"
                            /\ sel.error = "ValueError: total of weights"
                            /\ sel.draws = PositiveCount(enabled)

C14_Witness ==
    /\ sel.phase = "raised"
    /\ sel.error = "ValueError: total of weights"
    /\ sel.draws = 1
    /\ sel.k = 2
    /\ Len(EnabledCities(config)) = 2
    /\ NoNegative(EnabledCities(config))
\* C15: the last writer wins: whenever the file changes to a valid
\* schedule it holds, whole, the copy of one invocation that is then past
\* get_or_create_schedule, whatever flags the file held before; flags that
\* copy lacks are lost.
C15_Step ==
    (file' # file /\ file'.kind = "valid")
        => \E p \in Procs :
              /\ pc'[p] = "ready"
              /\ file'.data = ToDict(sched'[p])
              /\ \A c \in PostedIn(file) :
                     c \notin PostedIn([kind |-> "valid", data |-> sched'[p]])
                         => c \notin PostedIn(file')

C15_LastWriterWins == [][C15_Step]_vars

\* both invocations loaded today's schedule, A marked and saved a city, B
\* then marked and saved another: the file holds B's copy, in which A's
\* city, once persisted as posted, is not posted
C15_Witness ==
    /\ ret["A"] = Returned(FALSE)
    /\ ret["B"] = Returned(FALSE)
    /\ pc["A"] = "ready" /\ pc["B"] = "ready"
    /\ file = [kind |-> "valid", data |-> ToDict(sched["B"])]
    /\ \E c1 \in marked["A"] \cap ever :
          /\ HasEntry(file.data, c1)
          /\ c1 \notin PostedIn(file)
          /\ c1 \in PostedIn([kind |-> "valid", data |-> sched["A"]])
    /\ marked["B"] \cap PostedIn(file) # {}
\* the city ids of a schedule's entries, in order
Roster(s) == [i \in 1..Len(s.selected_cities) |-> s.selected_cities[i].city_id]

\* C20: get_or_create_schedule checks the file once, at its start: an
\* invocation that found no schedule for today writes and returns the
\* schedule of its own selection, also when another invocation has written
\* one for today in the meantime, and an invocation holding a schedule keeps
\* it whatever is written to the file.
C20_Step ==
    \A p \in Procs :
        /\ (pc[p] = "build" /\ pc'[p] = "ready")
               => /\ sched'[p] = NewSchedule(work[p].selected, work[p].posting_times, now)
                  /\ file' = [kind |-> "valid", data |-> ToDict(sched'[p])]
        /\ (pc[p] = "ready" /\ pc'[p] = "ready")
               => Roster(sched'[p]) = Roster(sched[p])

C20_EachWritesItsOwnRoster == [][C20_Step]_vars

\* both invocations generated a schedule for the same day; the file holds
\* B's, and A goes on with another roster
C20_Witness ==
    /\ pc["A"] = "ready" /\ pc["B"] = "ready"
    /\ ret["A"] = Returned(TRUE)
    /\ ret["B"] = Returned(TRUE)
    /\ sched["A"].date = sched["B"].date
    /\ file = [kind |-> "valid", data |-> ToDict(sched["B"])]
    /\ Roster(sched["A"]) # Roster(sched["B"])
    /\ {Roster(sched["A"])[i] : i \in 1..NUM_CITIES}
           # {Roster(sched["B"])[i] : i \in 1..NUM_CITIES}
\* the cities a schedule object holds as posted
PostedOf(s) == PostedIn([kind |-> "valid", data |-> s])

\* C16: a step that changes the flags of a schedule object in memory leaves
\* the file as it is; a call that loads returns the flags the file holds;
\* and the file holds, and a load returns, a flag as posted only if a save
\* wrote it since the schedule was generated.
C16_Step ==
    \A p \in Procs :
        /\ (pc[p] = "ready" /\ pc'[p] = "ready" /\ sched'[p] # sched[p])
               => /\ file' = file
                  /\ ever' = ever
        /\ (pc[p] = "idle" /\ pc'[p] = "ready")
               => /\ PostedOf(sched'[p]) = PostedIn(file)
                  /\ PostedOf(sched'[p]) \subseteq ever
                  /\ marked'[p] = {}

C16_FileHoldsSavedFlags == PostedIn(file) \subseteq ever

C16_MarkIsInMemoryOnly == [](C16_FileHoldsSavedFlags) /\ [][C16_Step]_vars

\* a later invocation of the day has loaded the schedule and marked a city
\* without saving: the object holds it as posted, the file does not
C16_Witness ==
    /\ pc["A"] = "ready"
    /\ ret["A"] = Returned(FALSE)
    /\ file.kind = "valid"
    /\ \E c \in marked["A"] :
          /\ c \in PostedOf(sched["A"])
          /\ HasEntry(file.data, c)
          /\ c \notin PostedIn(file)
          /\ c \notin ever

\* how often the record r occurs in the records
Occurrences(records, r) == Cardinality({i \in 1..Len(records) : records[i] = r})

\* the timestamp of r is more than the retention window before t
OlderThanRetention(r, t) == t - r.posted_at > RETENTION_HOURS * MinutesPerHour

ExcludedSet(records) == {GetExcludedIds(records)[i] : i \in 1..Len(records)}

\* C17: for any mix of record ages, cleanup_old with a 24h retention removes
\* exactly the records whose timestamp is more than 24h before now and keeps
\* all others (and returns how many it removed); a city added with add_posted
\* is in get_excluded_ids right afterwards, and a city whose records are all
\* 25 hours old or older is absent from it once the records are pruned.
C17_PruneByAge ==
    /\ rcall.op = "cleanup_old" =>
          /\ \A i \in 1..Len(rcall.before) :
                LET r == rcall.before[i]
                IN  Occurrences(recency, r) =
                        IF OlderThanRetention(r, rcall.at) THEN 0
                        ELSE Occurrences(rcall.before, r)
          /\ \A i \in 1..Len(recency) : Occurrences(rcall.before, recency[i]) > 0
          /\ rcall.removed =
                Cardinality({i \in 1..Len(rcall.before) :
                                OlderThanRetention(rcall.before[i], rcall.at)})
          /\ \A c \in TrackerIds :
                (\A i \in 1..Len(rcall.before) :
                    rcall.before[i].city_id = c
                        => rcall.at - rcall.before[i].posted_at >= PastRetention)
                => c \notin ExcludedSet(recency)
    /\ (rcall.op = "get_excluded_ids" /\ rcall.after # NoId) =>
          \E i \in 1..Len(rcall.result) : rcall.result[i] = rcall.after

\* a pruning of records of mixed ages: one exactly 25 hours old, whose city
\* is excluded no more, and one within the window, which stays
C17_Witness ==
    /\ rcall.op = "cleanup_old"
    /\ \E i, j \in 1..Len(rcall.before) :
          /\ rcall.at - rcall.before[i].posted_at = PastRetention
          /\ rcall.before[i].city_id \notin ExcludedSet(recency)
          /\ ~OlderThanRetention(rcall.before[j], rcall.at)
          /\ Occurrences(recency, rcall.before[j]) = 1

PickEnabled == EnabledCities(config)

PickExcluded == ExcludedSet(recency)

SomeNotExcluded == \E i \in 1..Len(PickEnabled) : PickEnabled[i].id \notin PickExcluded

\* the weights of the cities the pick is to draw from: the enabled cities
\* not excluded, all enabled cities when every one is excluded
PickWeights ==
    [i \in 1..Len(PickEnabled) |->
        IF SomeNotExcluded /\ PickEnabled[i].id \in PickExcluded THEN 0
        ELSE PickEnabled[i].weight]

PickTotal == SumTo(PickWeights, Len(PickWeights))

\* the pick neither raises nor ends without a city, and the city is an
\* enabled one, not excluded when some enabled city is not excluded
PickChooses ==
    /\ sel.phase # "raised"
    /\ sel.phase = "loop" =>
          SelectIterate(sel, IF ChoicesRaises(sel.weights) THEN 1
                             ELSE SumTo(sel.weights, Len(sel.weights))) # {}
    /\ sel.phase = "returned" =>
          /\ Len(sel.selected) = 1
          /\ \E i \in 1..Len(PickEnabled) : PickEnabled[i] = sel.selected[1]
          /\ SomeNotExcluded => sel.selected[1].id \notin PickExcluded

\* C18 as stated: in the single-pick mode a city is always chosen when at
\* least one city is enabled, from the full enabled pool when every enabled
\* city is excluded, and never an excluded city otherwise.
C18_AlwaysChosen ==
    (sel.phase # "none" /\ PickEnabled # <<>>) => PickChooses

\* C18 (amended): in the single-pick mode, when at least one city is enabled
\* and the weights of the pool drawn from (the enabled cities not excluded,
\* all enabled cities when every one is excluded) sum to more than zero, a
\* city is chosen, never an excluded one unless every enabled city is
\* excluded; when they sum to zero or less the pick raises ValueError.
C18_ChosenWhenWeightPositive ==
    (sel.phase # "none" /\ PickEnabled # <<>>) =>
        IF PickTotal > 0 THEN PickChooses
        ELSE /\ sel.phase \in {"loop", "raised"}
             /\ sel.phase = "loop" => sel.draws = 0
             /\ sel.phase = "raised" => sel.error = "ValueError: total of weights"

\* a pick that fell back: two enabled cities, both excluded, one chosen
C18_Witness ==
    /\ sel.phase = "returned"
    /\ Len(PickEnabled) > 1
    /\ ~SomeNotExcluded
    /\ sel.selected[1].id \in PickExcluded

\* the hours of the day of the six entries, in order
RosterHours == <<0, 4, 8, 12, 16, 20>>

\* process p holds the schedule its call generated, as the call returned it
HoldsGenerated(p) ==
    pc[p] = "ready" /\ ret[p] = Returned(TRUE) /\ marked[p] = {}

\* C19: every schedule generated by get_or_create_schedule has exactly 6
\* entries with pairwise distinct city ids, all of cities enabled in the
\* configuration, listed in the order of selection, the i-th entry
\* (i = 0..5) at 00:00, 04:00, 08:00, 12:00, 16:00 and 20:00 UTC
\* respectively, each with posted = false.
C19_GeneratedRoster ==
    \A p \in Procs :
        HoldsGenerated(p) =>
            LET entries == sched[p].selected_cities
            IN  /\ Len(entries) = Len(RosterHours)
                /\ \A i, j \in 1..Len(entries) :
                      i # j => entries[i].city_id # entries[j].city_id
                /\ \A i \in 1..Len(entries) :
                      /\ \E k \in 1..Len(config) :
                            config[k].id = entries[i].city_id /\ config[k].enabled
                      /\ Len(work[p].selected) = Len(entries)
                      /\ entries[i].city_id = work[p].selected[i].id
                      /\ entries[i].posting_time_utc % MinutesPerDay
                            = RosterHours[i] * MinutesPerHour
                      /\ entries[i].posted = FALSE

\* a generated schedule drawn from seven enabled cities, not the first six
\* in configuration order
C19_Witness ==
    \E p \in Procs :
        /\ HoldsGenerated(p)
        /\ Len(EnabledCities(config)) > Len(RosterHours)
        /\ \E i \in 1..Len(sched[p].selected_cities) :
              sched[p].selected_cities[i].city_id # i

\* a posting time in the format HH:MM, on the 24-hour clock
ValidlyFormatted(pieces) ==
    /\ Len(pieces) = 2
    /\ \A i \in 1..Len(pieces) : pieces[i].int
    /\ pieces[1].value \in 0..(HoursPerDay - 1)
    /\ pieces[2].value \in 0..(MinutesPerHour - 1)

\* the distance of two minutes of the day around the 24-hour clock
ClockDistance(a, b) == Min(Abs(a - b), MinutesPerDay - Abs(a - b))

\* C21: should_post_now returns true iff some validly formatted posting time
\* is within tolerance_minutes of the local time of day, measured around the
\* 24-hour clock as min(d, 1440 - d); a malformed posting time is skipped
\* and does not prevent a match on another one.
C21_WithinToleranceRoundTheClock ==
    spn.phase = "returned" =>
        (spn.result <=>
            \E i \in 1..Len(spn.posting_times) :
                /\ ValidlyFormatted(spn.posting_times[i])
                /\ ClockDistance(spn.current_minutes,
                                 spn.posting_times[i][1].value * MinutesPerHour
                                     + spn.posting_times[i][2].value)
                       <= spn.tolerance_minutes)

\* the clock is outside the window of every posting time of the city of the
\* process_city call
OutsideEveryWindow ==
    \A i \in 1..Len(pcall.city.posting_times) :
        LET text == pcall.city.posting_times[i]
        IN  ~(/\ ValidlyFormatted(text)
              /\ ClockDistance(LocalMinutes(now, pcall.city.utc_offset),
                               text[1].value * MinutesPerHour + text[2].value)
                     <= DEFAULT_TOLERANCE)

\* C22: process_city without force, at a time outside every posting window
\* of the city, invokes no collaborator and returns unsuccessful with the
\* error "Not within posting window"; with force the window check is
\* skipped and the weather fetch is attempted first.
C22_OutsideWindowNothingCalled ==
    pcall.phase # "none" =>
        /\ (~pcall.force /\ OutsideEveryWindow) =>
              /\ pcall.calls = <<>>
              /\ pcall.phase = "returned"
              /\ ~pcall.success
              /\ pcall.error = "Not within posting window"
        /\ pcall.force =>
              \/ pcall.phase = "weather" /\ pcall.calls = <<>>
              \/ pcall.calls # <<>> /\ pcall.calls[1] = "weather"

\* C23: main processes every city of its list exactly once and in order;
\* an exception raised inside process_city becomes a failed result of that
\* city and the cities after it are processed all the same; main returns a
\* non-zero exit code iff the list was not empty and no city succeeded.
C23_EveryCityOnceInOrder ==
    mn.phase # "none" =>
        /\ mn.phase \in {"loop", "exited"}
        /\ Len(mn.all_results) <= Len(mn.cities_to_process)
        /\ \A i \in 1..Len(mn.all_results) :
              /\ mn.all_results[i].city = mn.cities_to_process[i]
              /\ mn.all_results[i].caught => ~mn.all_results[i].success
        /\ pcall.phase # "none" =>
              /\ mn.phase = "loop"
              /\ Len(mn.all_results) < Len(mn.cities_to_process)
              /\ pcall.city = mn.cities_to_process[Len(mn.all_results) + 1]
        /\ mn.phase = "exited" =>
              /\ Len(mn.all_results) = Len(mn.cities_to_process)
              /\ mn.exit # 0 <=>
                    /\ mn.cities_to_process # <<>>
                    /\ \A i \in 1..Len(mn.all_results) : ~mn.all_results[i].success

\* a run whose first city raised and whose second city succeeded, exit code 0
C23_Witness ==
    /\ mn.phase = "exited"
    /\ Len(mn.all_results) = 2
    /\ mn.all_results[1].caught
    /\ mn.all_results[2].success
    /\ mn.exit = 0

\* how many entries of log are calls of f
CallsOf(log, f) == Cardinality({i \in 1..Len(log) : log[i] = f})

\* C24: generate_with_retry ends after at most max_attempts calls of
\* generate_image (max_attempts being the configured retry_max_attempts
\* when 0 is passed); it returns the first successful result and calls
\* nothing after it; every wait is followed by another attempt, none comes
\* after the last one; it returns None iff max_attempts attempts were made
\* and all of them failed.
C24_RetryBounded ==
    gwr.phase # "none" =>
        /\ gwr.max_attempts = IF gwr.argument # 0 THEN gwr.argument
                              ELSE gwr.retry_max_attempts
        /\ CallsOf(gwr.log, "generate_image") <= gwr.max_attempts
        /\ CallsOf(gwr.log, "generate_image") = Len(gwr.outcomes)
        /\ \A i \in 1..Len(gwr.outcomes) :
              gwr.outcomes[i] # "none" =>
                  /\ i = Len(gwr.outcomes)
                  /\ gwr.log[Len(gwr.log)] = "generate_image"
                  /\ gwr.phase # "loop"
        /\ \A i \in 1..Len(gwr.log) :
              gwr.log[i] = "sleep" =>
                  /\ i > 1 /\ gwr.log[i - 1] = "generate_image"
                  /\ CallsOf(SubSeq(gwr.log, 1, i), "generate_image") < gwr.max_attempts
                  /\ i < Len(gwr.log) => gwr.log[i + 1] = "generate_image"
                  /\ i = Len(gwr.log) => gwr.phase = "loop"
        /\ gwr.phase = "loop" =>
              /\ gwr.result = "unset"
              /\ \A i \in 1..Len(gwr.outcomes) : gwr.outcomes[i] = "none"
        /\ gwr.phase = "returned" =>
              /\ gwr.result = "value" <=>
                    (gwr.outcomes # <<>> /\ gwr.outcomes[Len(gwr.outcomes)] = "value")
              /\ gwr.result = "none" <=>
                    /\ Len(gwr.outcomes) = gwr.max_attempts
                    /\ \A i \in 1..Len(gwr.outcomes) : gwr.outcomes[i] = "none"

\* a call that failed twice, waited after each failure and returned the
\* result of the third attempt
C24_Witness ==
    /\ gwr.phase = "returned"
    /\ gwr.result = "value"
    /\ gwr.log = <<"generate_image", "sleep", "generate_image", "sleep", "generate_image">>

\* C25: create_media_container retries on timeout errors only: after a
\* request that fails with another error it returns failure without sending
\* another request, after a timeout error it waits before anything else,
\* and in every case it sends at most max_retries requests and returns.
C25_RetriesOnlyOnTimeout ==
    imc.phase # "none" =>
        /\ CallsOf(imc.log, "post") <= imc.max_retries
        /\ CallsOf(imc.log, "post") = Len(imc.outcomes)
        /\ \A i \in 1..Len(imc.outcomes) :
              /\ imc.outcomes[i] \in {"error response", "no response"} =>
                    /\ i = Len(imc.outcomes)
                    /\ imc.phase = "returned"
                    /\ imc.result = "None"
              /\ imc.outcomes[i] = "ok" =>
                    /\ i = Len(imc.outcomes)
                    /\ imc.phase = "returned"
                    /\ imc.result = "id"
        /\ \A i \in 1..Len(imc.log) :
              /\ imc.log[i] = "sleep" =>
                    i > 1 /\ imc.log[i - 1] = "post"
                          /\ imc.outcomes[CallsOf(SubSeq(imc.log, 1, i), "post")]
                                 = "timeout error"
              /\ (imc.log[i] = "post" /\ i > 1) => imc.log[i - 1] = "sleep"
        /\ (imc.outcomes # <<>> /\ imc.outcomes[Len(imc.outcomes)] = "timeout error") =>
              imc.log[Len(imc.log)] = "sleep"

\* the entries of s of city c
EntriesOf(s, c) == {i \in 1..Len(s.selected_cities) : s.selected_cities[i].city_id = c}

\* t differs from s in nothing but the posted flag of the first entry of c
OnlyFirstFlagOf(s, t, c) ==
    /\ t.date = s.date
    /\ t.generation_timestamp = s.generation_timestamp
    /\ Len(t.selected_cities) = Len(s.selected_cities)
    /\ \A i \in 1..Len(s.selected_cities) :
          /\ t.selected_cities[i].city_id = s.selected_cities[i].city_id
          /\ t.selected_cities[i].posting_time_utc = s.selected_cities[i].posting_time_utc
          /\ t.selected_cities[i].posted # s.selected_cities[i].posted =>
                /\ i \in EntriesOf(s, c)
                /\ \A j \in EntriesOf(s, c) : i <= j
    /\ EntriesOf(s, c) = {} => t = s

\* C26: mark_posted(c) changes nothing but the posted flag of the first
\* entry whose city id is c; the date, the generation timestamp, the order
\* of the entries, their city ids and posting times and the flags of all
\* other entries stay, and with no entry of c the schedule stays as it is.
C26_Step ==
    \A p \in Procs : \A c \in CityIds :
        MarkPosted(p, c) => OnlyFirstFlagOf(sched[p], sched'[p], c)

C26_MarkTouchesOneFlag == [][C26_Step]_vars

\* a marked schedule with two entries of the marked city, the first posted,
\* the second not
C26_Witness ==
    \E c \in marked["A"] :
        \E i, j \in EntriesOf(sched["A"], c) :
            /\ i < j
            /\ sched["A"].selected_cities[i].posted
            /\ ~sched["A"].selected_cities[j].posted

\* C27: in every schedule get_or_create_schedule produces, each entry's
\* scheduled instant lies on the UTC calendar date of the schedule's date
\* field, also when the date rolls over while the call is running.
C27_TimesOnScheduleDate ==
    \A p \in Procs :
        HoldsGenerated(p) =>
            \A i \in 1..Len(sched[p].selected_cities) :
                IsoDate(sched[p].selected_cities[i].posting_time_utc) = sched[p].date

\* the instants within a minute of the window of some entry of s: at any
\* other instant time_diff exceeds the tolerance for every entry
Instants(s) ==
    UNION {(s.selected_cities[i].posting_time_utc - DEFAULT_TOLERANCE - 1)
              ..(s.selected_cities[i].posting_time_utc + DEFAULT_TOLERANCE + 1) :
           i \in 1..Len(s.selected_cities)}

\* the cities of schedule s for which needs_posting is true at instant t
DueCities(s, t) ==
    {c \in CityIds : NeedsPosting(s, c, t, DEFAULT_TOLERANCE)}

\* process p holds a schedule its call generated, flags set or not
HoldsGeneratedMarked(p) ==
    pc[p] = "ready" /\ ret[p] = Returned(TRUE)

\* C28: for a schedule generated by get_or_create_schedule and the default
\* tolerance of 30 minutes, at every instant at most one city of the
\* schedule has needs_posting true, whatever posted flags have been set.
C28_AtMostOneDue ==
    \A p \in Procs :
        HoldsGeneratedMarked(p) =>
            \A t \in Instants(sched[p]) : Cardinality(DueCities(sched[p], t)) <= 1

\* a generated schedule with a flag set, one city due at some instant and
\* none due at another instant inside a window
C28_Witness ==
    \E p \in Procs :
        /\ HoldsGeneratedMarked(p)
        /\ PostedCount(sched[p]) > 0
        /\ \E t \in Instants(sched[p]) : Cardinality(DueCities(sched[p], t)) = 1
        /\ \E i \in 1..Len(sched[p].selected_cities) :
              DueCities(sched[p], sched[p].selected_cities[i].posting_time_utc) = {}

\* entry i of schedule s had its window behind it when s was generated
EndedAtGeneration(s, i) ==
    s.selected_cities[i].posting_time_utc + DEFAULT_TOLERANCE < s.generation_timestamp

\* the instants from the generation of s on: the clock's reading and every
\* minute in or beside a window of s
LaterInstants(s) ==
    {t \in Instants(s) \cup {now} : t >= s.generation_timestamp}

\* C29: an entry whose eligibility window (scheduled time + tolerance) had
\* already ended when the schedule was generated is never eligible at any
\* later instant: needs_posting stays false for it, and a caller that marks
\* only eligible cities never marks it posted.
C29_EndedNeverEligible ==
    \A p \in Procs :
        pc[p] = "ready" =>
            \A i \in 1..Len(sched[p].selected_cities) :
                EndedAtGeneration(sched[p], i) =>
                    /\ ~sched[p].selected_cities[i].posted
                    /\ \A t \in LaterInstants(sched[p]) :
                          ~NeedsPosting(sched[p], sched[p].selected_cities[i].city_id,
                                        t, DEFAULT_TOLERANCE)

\* a schedule generated after an entry's window, held at a later reading of
\* the clock, with another of its cities marked by the caller
C29_Witness ==
    \E p \in Procs :
        /\ pc[p] = "ready"
        /\ now > sched[p].generation_timestamp
        /\ \E i \in 1..Len(sched[p].selected_cities) : EndedAtGeneration(sched[p], i)
        /\ PostedCount(sched[p]) > 0

====
